---- MODULE Spec2Model ----
(***************************************************************************)
(* A model of the SpiderWeb processing pipeline:                           *)
(*   ErrorHandlingService        (framework/services/error-handling.ts)    *)
(*   PublishingExecutionService  (services/publishing-execution)           *)
(*   FrontendConnectionService   (services/frontend-connection)            *)
(*   ContentTransformationService, EmailInterpretationService              *)
(*   FrameworkController         (controllers/framework-controller)        *)
(* Each service is a group of variables with one action per operation.     *)
(* SpecEC drives the error coordinator alone, SpecPub one call of          *)
(* PublishingExecutionService.executePublishing, SpecRun one call of       *)
(* FrameworkController.processInput, SpecStatus the pure status function.  *)
(***************************************************************************)
EXTENDS Integers, Sequences, FiniteSets, TLC

VARIABLES
  \* ---- ErrorHandlingService
  ehErrors,          \* this.errors: the log, a sequence of SystemError objects
  errorThresholds,   \* this.errorThresholds: component -> threshold
  recoveryStrategies, \* this.recoveryStrategies: component -> what its strategy does
  logLimit,          \* the length the log is cut back to (1000 in the code)
  clock,             \* the current time, as timestamps are read from it
  nextId,            \* identity of the next SystemError object created
  ehCalls,           \* number of handleError calls so far
  lastHandled,       \* what the last handleError call did
  reached,           \* component -> its count has met its threshold since its last clear
  inFlight,          \* handleError calls that overlap: slot -> where the call stands, its locals
  \* ---- PublishingExecutionService and the objects passed to it
  conns,             \* the FrontendConnection objects of the caller
  schemas,           \* destination name -> FrontendSchema
  pubErrors,         \* this.errors of the publisher
  pubCalls,          \* number of executePublishing calls so far
  pubCall,           \* the last executePublishing call: arguments, result, wire events
  net,               \* destination name -> the outcomes of the fetches sent to it, in order
  \* ---- FrameworkController and the stage services it owns
  pc,                \* where the processInput call in progress stands ("idle": none)
  run,               \* the locals of that call: input, stage results so far
  runs,              \* number of processInput calls so far
  output,            \* what the last processInput call returned or threw
  emailErrors,       \* this.errors of EmailInterpretationService
  fcsErrors,         \* this.errors of FrontendConnectionService
  ctsErrors,         \* this.errors of ContentTransformationService
  parked,            \* another processInput call of this controller, suspended at an await
  \* ---- a service method called on its own
  calc               \* the last such call: the method, its arguments, what it returned

ehVars == <<ehErrors, errorThresholds, recoveryStrategies, logLimit, inFlight, clock, nextId, ehCalls, lastHandled, reached>>
pubVars == <<conns, schemas, pubErrors, pubCalls, pubCall, net>>
ctlVars == <<pc, run, runs, output, emailErrors, fcsErrors, ctsErrors, parked>>

\* ------------------------------------------------------------------ bounds
\* The log limit used when the coordinator is driven alone (the code keeps 1000).
SmallLogLimit == 2
\* handleError calls per behaviour of SpecEC.
MaxHandled == 4
\* handleError calls per behaviour of SpecDefaults.
MaxDefaultHandled == 5
\* handleError calls of SpecOverlap, which may all be in flight together.
MaxInFlight == 2
\* Calls of a service method made on its own.
MaxDirectCalls == 2
\* Lines with tags in the body of an email.
MaxLines == 2
\* Largest timestamp the clock reaches.
MaxClock == 2
\* executePublishing calls per behaviour of SpecChain and SpecPub.
MaxPubCalls == 2
\* processInput calls per behaviour of SpecRun.
MaxRuns == 1
\* The number of processInput calls when two of them may overlap.
MaxConcurrent == 2
\* errors per stage and ProcessingResults handed to determineOverallStatus in SpecStatus.
MaxStageErrors == 2
MaxResults == 2

\* ------------------------------------------------------- program constants
LogLimit == 1000
DefaultThreshold == 10
RecentForNotify == 5

\* =========================================================================
\* ErrorHandlingService
\* =========================================================================
Services == {"EmailInterpretationService", "FrontendConnectionService",
             "ContentTransformationService", "PublishingExecutionService",
             "ErrorHandlingService"}
Components == Services \cup {"FrameworkController"}
Severities == {"low", "medium", "high", "critical"}

\* The substrings of an error message the recovery strategies look for.
\* A message is modelled by the set of those it contains.
Keywords == {"classification", "attachment", "authentication", "connection",
             "transformation", "mapping", "HTTP", "timeout", "validation"}

NoError == [id |-> 0, ts |-> 0, component |-> "none", severity |-> "low",
            msg |-> {}, resolved |-> FALSE]

InitialThresholdsUniform == [c \in Services |-> 10]
InitialThresholds ==
  [c \in Services |->
     CASE c = "EmailInterpretationService" -> 10
       [] c = "FrontendConnectionService" -> 5
       [] c = "ContentTransformationService" -> 8
       [] c = "PublishingExecutionService" -> 7
       [] OTHER -> 3]

\* Components with a registered recovery strategy.
StrategyComponents == {"EmailInterpretationService", "FrontendConnectionService",
                       "ContentTransformationService", "PublishingExecutionService"}

\* What a registered strategy does when it is run: "registered" is one of the
\* strategies of initializeRecoveryStrategies, "empty" returns no action and
\* "throws" throws (strategies a caller added with addRecoveryStrategy).
StrategyBehaviours == {"registered", "empty", "throws"}
InitialStrategies == [c \in StrategyComponents |-> "registered"]

\* ---- actions returned by handleError (type, target, priority, action)
MkAction(type, target, priority, action) ==
  [type |-> type, target |-> target, priority |-> priority, action |-> action]

PauseAction == MkAction("error", "system", "high", "pause_system")
NotifyAction == MkAction("notify", "admin", "high", "threshold_exceeded")

FilterComponent(log, c) == SelectSeq(log, LAMBDA e : e.component = c)

GetErrorCount(log, c) == Len(FilterComponent(log, c))

\* componentErrors.slice(-limit), limit > 0
GetRecentErrors(log, c, limit) ==
  LET ce == FilterComponent(log, c)
  IN IF Len(ce) <= limit THEN ce ELSE SubSeq(ce, Len(ce) - limit + 1, Len(ce))

\* this.errorThresholds.get(component) || 10
ThresholdOf(th, c) ==
  IF c \in DOMAIN th /\ th[c] # 0 THEN th[c] ELSE DefaultThreshold

IsExceededStrict(log, th, c) ==
  Len(GetRecentErrors(log, c, ThresholdOf(th, c))) > ThresholdOf(th, c)
IsErrorThresholdExceeded(log, th, c) ==
  Len(GetRecentErrors(log, c, ThresholdOf(th, c))) >= ThresholdOf(th, c)

\* push, then keep the last `limit` entries
LogError(log, e, limit) ==
  LET l == Append(log, e)
  IN IF Len(l) > limit THEN SubSeq(l, Len(l) - limit + 1, Len(l)) ELSE l

GetErrorPriorityFlat(severity) == "medium"
GetErrorPriority(severity) ==
  CASE severity \in {"critical", "high"} -> "high"
    [] severity = "medium" -> "medium"
    [] severity = "low" -> "low"
    [] OTHER -> "medium"

\* The registered strategies: the actions recover(error) returns.
StrategyActions(e) ==
  LET has(k) == k \in e.msg
      one(cond, a) == IF cond THEN <<a>> ELSE <<>>
  IN CASE e.component = "EmailInterpretationService" ->
            one(has("classification"),
                MkAction("transform", e.component, "medium", "retry_classification"))
            \o one(has("attachment"),
                MkAction("transform", e.component, "medium", "retry_without_attachments"))
       [] e.component = "FrontendConnectionService" ->
            one(has("authentication"),
                MkAction("connect", e.component, "high", "retry_with_alt_auth"))
            \o one(has("connection"),
                MkAction("connect", e.component, "medium", "retry_with_extended_timeout"))
       [] e.component = "ContentTransformationService" ->
            one(has("transformation"),
                MkAction("transform", e.component, "medium", "retry_with_defaults"))
            \o one(has("mapping"),
                MkAction("transform", e.component, "medium", "use_fallback_mapping"))
       [] e.component = "PublishingExecutionService" ->
            one(has("HTTP"),
                MkAction("publish", e.component, "high", "retry_with_backoff"))
            \o one(has("timeout"),
                MkAction("publish", e.component, "medium", "retry_with_timeout"))
            \o one(has("validation"),
                MkAction("publish", e.component, "medium", "retry_simplified"))
       [] OTHER -> <<>>

\* error.resolved = true: the object is shared by every log slot that holds it.
MarkResolved(log, id) ==
  [i \in DOMAIN log |-> IF log[i].id = id THEN [log[i] EXCEPT !.resolved = TRUE] ELSE log[i]]

\* updateErrorStatus: the first slot with the error's timestamp and component
\* is made to hold the error.
UpdateErrorStatus(log, e) ==
  LET hits == {i \in DOMAIN log : log[i].ts = e.ts /\ log[i].component = e.component}
  IN IF hits = {} THEN log
     ELSE LET index == CHOOSE i \in hits : \A j \in hits : i <= j
          IN [log EXCEPT ![index] = e]

\* if (actions.length > 0) of attemptRecovery
ShouldResolveAlways(actions) == TRUE
ShouldResolve(actions) == Len(actions) > 0

\* attemptRecovery: the log, the strategy's actions, whether a strategy ran and
\* whether the error was marked resolved.
AttemptRecovery(log, e) ==
  IF e.component \notin StrategyComponents
  THEN [log |-> log, actions |-> <<>>, ran |-> FALSE, marked |-> FALSE, threw |-> FALSE]
  ELSE LET acts == StrategyActions(e)
       IN IF ShouldResolve(acts)
          THEN [log |-> UpdateErrorStatus(MarkResolved(log, e.id),
                                          [e EXCEPT !.resolved = TRUE]),
                actions |-> acts, ran |-> TRUE, marked |-> TRUE, threw |-> FALSE]
          ELSE [log |-> log, actions |-> <<>>, ran |-> TRUE, marked |-> FALSE,
                threw |-> FALSE]

\* the error attemptRecovery logs when the strategy threw
RecoveryFailure(id, t) ==
  [id |-> id, ts |-> t, component |-> "ErrorHandlingService", severity |-> "high",
   msg |-> {}, resolved |-> FALSE]

\* attemptRecovery with the strategies registered in strat; failure is the
\* error it would log on a throw
AttemptRecoveryWith(log, strat, limit, e, failure) ==
  IF e.component \notin DOMAIN strat
  THEN [log |-> log, actions |-> <<>>, ran |-> FALSE, marked |-> FALSE, threw |-> FALSE]
  ELSE IF strat[e.component] = "throws"
  THEN [log |-> LogError(log, failure, limit), actions |-> <<>>, ran |-> TRUE,
        marked |-> FALSE, threw |-> TRUE]
  ELSE IF strat[e.component] = "empty"
  THEN [log |-> log, actions |-> <<>>, ran |-> TRUE, marked |-> FALSE, threw |-> FALSE]
  ELSE AttemptRecovery(log, e)

GenericErrorAction(e) ==
  MkAction("error", "system", GetErrorPriority(e.severity), "none")

\* handleError with the strategies registered in strat: the log after the
\* call and the actions returned.
HandleErrorWith(log, th, strat, limit, e, failure) ==
  LET logged == LogError(log, e, limit)
  IN IF IsErrorThresholdExceeded(logged, th, e.component)
     THEN [log |-> logged, actions |-> <<PauseAction, NotifyAction>>,
           exceeded |-> TRUE, ran |-> FALSE, marked |-> FALSE, threw |-> FALSE,
           recovered |-> 0]
     ELSE LET r == AttemptRecoveryWith(logged, strat, limit, e, failure)
          IN [log |-> r.log,
              actions |-> IF Len(r.actions) > 0 THEN r.actions
                          ELSE <<GenericErrorAction(e)>>,
              exceeded |-> FALSE, ran |-> r.ran, marked |-> r.marked, threw |-> r.threw,
              recovered |-> Len(r.actions)]

\* handleError while only the strategies of initializeRecoveryStrategies are
\* registered
HandleError(log, th, limit, e) ==
  HandleErrorWith(log, th, InitialStrategies, limit, e, NoError)

\* What a handleError call leaves for the properties to read.
HandledRecord(log, th, limit, e) ==
  LET r == HandleErrorWith(log, th, recoveryStrategies, limit, e,
                           RecoveryFailure(e.id + 1, e.ts))
  IN [error |-> e, actions |-> r.actions, exceeded |-> r.exceeded, ran |-> r.ran,
      threw |-> r.threw, recovered |-> r.recovered,
      countBefore |-> GetErrorCount(log, e.component),
      threshold |-> ThresholdOf(th, e.component),
      latched |-> reached[e.component],
      resolvedAfter |-> (r.marked \/ e.resolved)]

NoHandled == [error |-> NoError, actions |-> <<>>, exceeded |-> FALSE, ran |-> FALSE,
              threw |-> FALSE, recovered |-> 0,
              countBefore |-> 0, threshold |-> 0, latched |-> FALSE,
              resolvedAfter |-> FALSE]

\* ---- handleError calls that overlap
\* the slots of the calls in flight
Handlers == 1..MaxInFlight

\* a slot without a call
NoCall ==
  [pc |-> "idle", error |-> NoError, exceeded |-> FALSE, countAfter |-> 0, threshold |-> 0,
   strategies |-> <<>>, actions |-> <<>>]

\* Which reading of the threshold decides what the call returns: the one made
\* right after logError, in the same synchronous block, or one made when the
\* call continues after its await.
ThresholdDecisionAfterAwait(atAppend, afterAwait) == afterAwait
ThresholdDecision(atAppend, afterAwait) == atAppend

\* The latch the properties read: set when a component's count meets its
\* threshold, cleared by clearErrors for it.
Latch(log, th) ==
  [c \in Components |-> reached[c] \/ GetErrorCount(log, c) >= ThresholdOf(th, c)]

\* ---- the errors SpecEC hands to handleError: <<component, severity, message>>
ECKinds == {<<"FrontendConnectionService", "medium", {"connection"}>>,
            <<"FrontendConnectionService", "high", {}>>,
            <<"FrameworkController", "critical", {}>>,
            <<"FrameworkController", "low", {}>>}
ECComponents == {k[1] : k \in ECKinds}

\* no service method has been called on its own yet
NoCalc == [fn |-> "none"]

InitEH(limit) ==
  /\ ehErrors = <<>>
  /\ errorThresholds = InitialThresholds
  /\ recoveryStrategies = InitialStrategies
  /\ inFlight = [p \in Handlers |-> NoCall]
  /\ calc = NoCalc
  /\ logLimit = limit
  /\ clock = 1
  /\ nextId = 1
  /\ ehCalls = 0
  /\ lastHandled = NoHandled
  /\ reached = [c \in Components |-> FALSE]

\* handleError(error) for a newly created error
EHHandleError ==
  /\ ehCalls < MaxHandled
  /\ \E k \in ECKinds, t \in {clock, clock + 1} :
       /\ t <= MaxClock
       /\ LET e == [id |-> nextId, ts |-> t, component |-> k[1], severity |-> k[2],
                    msg |-> k[3], resolved |-> FALSE]
              r == HandleErrorWith(ehErrors, errorThresholds, recoveryStrategies, logLimit,
                                   e, RecoveryFailure(nextId + 1, t))
          IN /\ ehErrors' = r.log
             /\ lastHandled' = HandledRecord(ehErrors, errorThresholds, logLimit, e)
             /\ reached' = Latch(r.log, errorThresholds)
             /\ clock' = t
             /\ nextId' = nextId + (IF r.threw THEN 2 ELSE 1)
  /\ ehCalls' = ehCalls + 1
  /\ UNCHANGED <<errorThresholds, recoveryStrategies, logLimit, calc, inFlight>>

\* the errors handed to handleError while the thresholds are the initial ones
DefaultKinds == {<<"ErrorHandlingService", "high", {}>>,
                 <<"FrontendConnectionService", "medium", {"connection"}>>,
                 <<"FrontendConnectionService", "low", {}>>}

\* handleError(error) of a service on which setErrorThreshold is never called
EHHandleWithDefaults ==
  /\ ehCalls < MaxDefaultHandled
  /\ \E k \in DefaultKinds, t \in {clock, clock + 1} :
       /\ t <= MaxClock
       /\ LET e == [id |-> nextId, ts |-> t, component |-> k[1], severity |-> k[2],
                    msg |-> k[3], resolved |-> FALSE]
              r == HandleErrorWith(ehErrors, errorThresholds, recoveryStrategies, logLimit,
                                   e, RecoveryFailure(nextId + 1, t))
          IN /\ ehErrors' = r.log
             /\ lastHandled' = HandledRecord(ehErrors, errorThresholds, logLimit, e)
             /\ reached' = Latch(r.log, errorThresholds)
             /\ clock' = t
             /\ nextId' = nextId + (IF r.threw THEN 2 ELSE 1)
  /\ ehCalls' = ehCalls + 1
  /\ UNCHANGED <<errorThresholds, recoveryStrategies, logLimit, calc, inFlight>>

\* clearErrors(component) and clearErrors()
EHClearErrors ==
  /\ ehErrors # <<>>
  /\ \/ \E c \in ECComponents :
          /\ ehErrors' = SelectSeq(ehErrors, LAMBDA e : e.component # c)
          /\ reached' = [reached EXCEPT ![c] = FALSE]
     \/ /\ ehErrors' = <<>>
        /\ reached' = [c \in Components |-> FALSE]
  /\ UNCHANGED <<errorThresholds, recoveryStrategies, logLimit, calc, inFlight, clock, nextId, ehCalls, lastHandled>>

\* resolveError(timestamp, component): the first match is marked resolved
EHResolveError ==
  /\ \E i \in DOMAIN ehErrors :
       /\ ~ehErrors[i].resolved
       /\ \A j \in DOMAIN ehErrors :
            (ehErrors[j].ts = ehErrors[i].ts /\ ehErrors[j].component = ehErrors[i].component)
              => i <= j
       /\ ehErrors' = MarkResolved(ehErrors, ehErrors[i].id)
  /\ UNCHANGED <<errorThresholds, recoveryStrategies, logLimit, calc, inFlight, clock, nextId, ehCalls, lastHandled, reached>>

\* The thresholds SpecEC configures, and the component it configures them for.
ThresholdValues == {0, 2}
ThresholdComponents == {"FrontendConnectionService"}

\* setErrorThreshold(component, threshold)
EHSetErrorThreshold ==
  /\ \E c \in ThresholdComponents, t \in ThresholdValues :
       /\ (IF c \in DOMAIN errorThresholds THEN errorThresholds[c] # t ELSE TRUE)
       /\ LET th == [x \in DOMAIN errorThresholds \cup {c} |->
                       IF x = c THEN t ELSE errorThresholds[x]]
          IN /\ errorThresholds' = th
             /\ reached' = [reached EXCEPT
                              ![c] = GetErrorCount(ehErrors, c) >= ThresholdOf(th, c)]
  /\ UNCHANGED <<ehErrors, recoveryStrategies, logLimit, calc, inFlight, clock, nextId, ehCalls, lastHandled>>

\* the errors handed to the overlapping handleError calls, all of one component
InFlightKinds == {<<"FrontendConnectionService", "medium", {"connection"}>>,
                  <<"FrontendConnectionService", "high", {}>>}

\* handleError(error) from its entry to its first await: logError, the
\* threshold comparison, and the lookup of the component's strategy
EHEnter(p) ==
  /\ inFlight[p].pc = "idle"
  /\ ehCalls < MaxHandled
  /\ \E k \in InFlightKinds, t \in {clock, clock + 1} :
       /\ t <= MaxClock
       /\ LET e == [id |-> nextId, ts |-> t, component |-> k[1], severity |-> k[2],
                    msg |-> k[3], resolved |-> FALSE]
              logged == LogError(ehErrors, e, logLimit)
          IN /\ ehErrors' = logged
             /\ inFlight' = [inFlight EXCEPT ![p] =
                               [pc |-> "await", error |-> e,
                                exceeded |-> IsErrorThresholdExceeded(logged, errorThresholds,
                                                                      e.component),
                                countAfter |-> GetErrorCount(logged, e.component),
                                threshold |-> ThresholdOf(errorThresholds, e.component),
                                strategies |-> recoveryStrategies,
                                actions |-> <<>>]]
             /\ reached' = Latch(logged, errorThresholds)
             /\ clock' = t
  /\ nextId' = nextId + 1
  /\ ehCalls' = ehCalls + 1
  /\ UNCHANGED <<errorThresholds, recoveryStrategies, logLimit, calc, lastHandled>>

\* what the call does once it continues: r is attemptRecovery's outcome
EHResumed(p, paused, r) ==
  /\ ehErrors' = IF paused THEN ehErrors ELSE r.log
  /\ inFlight' = [inFlight EXCEPT
                    ![p].pc = "returned",
                    ![p].actions = IF paused THEN <<PauseAction, NotifyAction>>
                                   ELSE IF Len(r.actions) > 0 THEN r.actions
                                   ELSE <<GenericErrorAction(inFlight[p].error)>>]
  /\ nextId' = nextId + (IF ~paused /\ r.threw THEN 1 ELSE 0)
  /\ reached' = Latch(IF paused THEN ehErrors ELSE r.log, errorThresholds)

\* handleError(error) from its await to its return
EHResume(p) ==
  /\ inFlight[p].pc = "await"
  /\ EHResumed(p,
               ThresholdDecision(inFlight[p].exceeded,
                                 IsErrorThresholdExceeded(ehErrors, errorThresholds,
                                                          inFlight[p].error.component)),
               AttemptRecoveryWith(ehErrors, inFlight[p].strategies, logLimit,
                                   inFlight[p].error, RecoveryFailure(nextId, clock)))
  /\ UNCHANGED <<errorThresholds, recoveryStrategies, logLimit, calc, clock, ehCalls, lastHandled>>

\* The strategies SpecEC registers, and the component it registers them for.
AddedStrategies == {"empty", "throws"}
AddedStrategyComponents == {"FrontendConnectionService"}

\* addRecoveryStrategy(component, strategy), called while the service is set
\* up, before the first error is handled
EHAddRecoveryStrategy ==
  /\ ehCalls = 0
  /\ \E c \in AddedStrategyComponents, b \in AddedStrategies :
       /\ (IF c \in DOMAIN recoveryStrategies THEN recoveryStrategies[c] # b ELSE TRUE)
       /\ recoveryStrategies' = [x \in DOMAIN recoveryStrategies \cup {c} |->
                                   IF x = c THEN b ELSE recoveryStrategies[x]]
  /\ UNCHANGED <<ehErrors, errorThresholds, logLimit, calc, inFlight, clock, nextId, ehCalls, lastHandled,
                 reached>>

\* =========================================================================
\* PublishingExecutionService
\* =========================================================================
\* What a fetch ends in: a 2xx response, another response, or a rejection.
Responses == {"ok", "non2xx", "transport"}

BackoffDelaysReordered == <<1000, 5000, 3000>>
BackoffDelays == <<1000, 3000, 5000>>

AlternativeAuths == <<[type |-> "api_key", header |-> "X-API-Key"],
                      [type |-> "api_key", header |-> "Authorization"],
                      [type |-> "jwt", header |-> "Authorization"]>>

\* The HTTP requests one executeRequests call can issue for a request: the
\* original, the backoff retries, the alternate-auth attempts, one simplified body.
MaxAttempts == 1 + Len(BackoffDelays) + Len(AlternativeAuths) + 1

EssentialFields == {"title", "body", "type", "name", "description"}

PublishMethods == {"POST", "PUT", "PATCH"}

\* typeToEndpointMap[contentType] || ['/content']
PossiblePaths(contentType) ==
  CASE contentType = "article" -> {"/articles", "/posts", "/content", "/blog"}
    [] contentType = "product" -> {"/products", "/items", "/listings"}
    [] contentType = "update" -> {"/updates", "/news", "/announcements"}
    [] contentType = "announcement" -> {"/announcements", "/news", "/updates"}
    [] OTHER -> {"/content"}

\* endpoint.path.includes(path), for the endpoint paths of the model
PathIncludes(endpointPath, sub) ==
  CASE endpointPath = "/api/articles" -> sub = "/articles"
    [] endpointPath = "/api/posts" -> sub = "/posts"
    [] endpointPath = "/api/products" -> sub = "/products"
    [] endpointPath = "/api/content" -> sub = "/content"
    [] endpointPath = "/api/items" -> sub = "/items"
    [] OTHER -> FALSE

EndpointMatches(endpoint, contentType) ==
  /\ \E sub \in PossiblePaths(contentType) : PathIncludes(endpoint.path, sub)
  /\ endpoint.method \in PublishMethods

\* schema.endpoints.find(...): the index of the first match, 0 when none
FindEndpointForContentType(schema, contentType) ==
  LET hits == {i \in DOMAIN schema.endpoints : EndpointMatches(schema.endpoints[i], contentType)}
  IN IF hits = {} THEN 0 ELSE CHOOSE i \in hits : \A j \in hits : i <= j

\* createAuthHeaders: the Authorization scheme for the connection's auth type
CreateAuthHeaders(connection) ==
  [authorization |->
     CASE connection.auth_type = "api_key" -> "Bearer"
       [] connection.auth_type = "jwt" -> "JWT"
       [] connection.auth_type = "oauth2" -> "OAuth"
       [] OTHER -> "absent",
   xApiKey |-> FALSE]

\* prepareRequestBody, as the set of fields the body carries
PrepareRequestBody(processedContent, endpoint) ==
  LET body == processedContent.fields \cup {"type", "publishing_intent"}
                \cup (IF processedContent.media > 0 THEN {"media"} ELSE {})
  IN IF endpoint.hasBody
     THEN {f \in body : f \in endpoint.required \cup endpoint.properties}
     ELSE body

\* createPostRequest / createPutRequest / createPatchRequest
CreateRequest(processedContent, connection, endpoint) ==
  [method |-> endpoint.method,
   path |-> endpoint.path,
   withId |-> endpoint.method # "POST",
   conn |-> connection.name,
   headers |-> CreateAuthHeaders(connection),
   body |-> PrepareRequestBody(processedContent, endpoint)]

NoRequest == [method |-> "none", path |-> "none", withId |-> FALSE, conn |-> "none",
              headers |-> [authorization |-> "absent", xApiKey |-> FALSE], body |-> {}]

\* ---- what the service does on the wire, in order
WaitEvent(conn, ms, at) ==
  [kind |-> "wait", conn |-> conn, strategy |-> "backoff", ms |-> ms, at |-> at,
   headers |-> [authorization |-> "absent", xApiKey |-> FALSE], body |-> {},
   resp |-> "none"]
SendEvent(request, strategy, at, headers, body, resp) ==
  [kind |-> "send", conn |-> request.conn, strategy |-> strategy, ms |-> 0, at |-> at,
   headers |-> headers, body |-> body, resp |-> resp]

\* An error as a service creates it, before it is given an identity.
ErrorTemplate(component, severity, msg) ==
  [component |-> component, severity |-> severity, msg |-> msg]

\* retryWithBackoff from the k-th delay on; n requests were sent before, t is now.
RECURSIVE BackoffLoop(_, _, _, _, _)
BackoffLoop(k, request, resp, n, t) ==
  IF k > Len(BackoffDelays)
  THEN [threw |-> TRUE, events |-> <<>>, n |-> n, t |-> t]
  ELSE LET t1 == t + BackoffDelays[k]
           ev == <<WaitEvent(request.conn, BackoffDelays[k], t1),
                   SendEvent(request, "backoff", t1, request.headers, request.body,
                             resp[n + 1])>>
       IN IF resp[n + 1] = "ok"
          THEN [threw |-> FALSE, events |-> ev, n |-> n + 1, t |-> t1]
          ELSE LET rest == BackoffLoop(k + 1, request, resp, n + 1, t1)
               IN [rest EXCEPT !.events = ev \o rest.events]

RetryWithBackoff(request, resp, n, t) == BackoffLoop(1, request, resp, n, t)

\* The headers of an alternate-auth attempt.
AlternativeHeaders(request, auth) ==
  IF auth.header = "Authorization"
  THEN [authorization |-> "Bearer", xApiKey |-> request.headers.xApiKey]
  ELSE [authorization |-> "absent", xApiKey |-> TRUE]

RECURSIVE AltAuthLoop(_, _, _, _, _)
AltAuthLoop(k, request, resp, n, t) ==
  IF k > Len(AlternativeAuths)
  THEN [threw |-> TRUE, events |-> <<>>, n |-> n, t |-> t]
  ELSE LET ev == <<SendEvent(request, "altauth", t,
                             AlternativeHeaders(request, AlternativeAuths[k]),
                             request.body, resp[n + 1])>>
       IN IF resp[n + 1] = "ok"
          THEN [threw |-> FALSE, events |-> ev, n |-> n + 1, t |-> t]
          ELSE LET rest == AltAuthLoop(k + 1, request, resp, n + 1, t)
               IN [rest EXCEPT !.events = ev \o rest.events]

RetryWithAlternativeAuth(request, resp, n, t) == AltAuthLoop(1, request, resp, n, t)

\* retryWithSimplifiedContent: only a rejected fetch throws.
SimplifiedThrows(r) == r = "transport"

RetryWithSimplifiedContent(request, resp, n, t) ==
  [threw |-> SimplifiedThrows(resp[n + 1]),
   events |-> <<SendEvent(request, "simplified", t, request.headers,
                          request.body \cap EssentialFields, resp[n + 1])>>,
   n |-> n + 1, t |-> t]

\* attemptRecovery once the simplified-content strategy has ended
AfterSimplified(before, c) ==
  [events |-> before \o c.events,
   errors |-> IF c.threw
              THEN <<ErrorTemplate("PublishingExecutionService", "critical", {})>>
              ELSE <<>>,
   recovered |-> ~c.threw]

\* a fourth alternate-auth attempt in the place of the simplified body
AlternativeAuthAgain(c) == [c EXCEPT !.events = <<[c.events[1] EXCEPT !.strategy = "altauth"]>>]

AfterAlternativeAuthAgain(request, resp, before, a) ==
  IF ~a.threw
  THEN [events |-> before \o a.events, errors |-> <<>>, recovered |-> TRUE]
  ELSE AfterSimplified(before \o a.events,
                       AlternativeAuthAgain(RetryWithSimplifiedContent(request, resp, a.n, a.t)))

\* attemptRecovery once the alternate-auth strategy has ended
AfterAlternativeAuth(request, resp, before, a) ==
  IF ~a.threw
  THEN [events |-> before \o a.events, errors |-> <<>>, recovered |-> TRUE]
  ELSE AfterSimplified(before \o a.events,
                       RetryWithSimplifiedContent(request, resp, a.n, a.t))

AfterBackoffContinuing(request, resp, b) ==
  AfterAlternativeAuth(request, resp, b.events,
                       RetryWithAlternativeAuth(request, resp, b.n, b.t))

\* attemptRecovery once the backoff strategy has ended
AfterBackoff(request, resp, b) ==
  IF ~b.threw
  THEN [events |-> b.events, errors |-> <<>>, recovered |-> TRUE]
  ELSE AfterAlternativeAuth(request, resp, b.events,
                            RetryWithAlternativeAuth(request, resp, b.n, b.t))

\* attemptRecovery of the publisher: the strategies in order until one returns.
PubAttemptRecovery(request, resp, n, t) ==
  AfterBackoff(request, resp, RetryWithBackoff(request, resp, n, t))

\* The message of the error executeRequests records for a failed send.
SendFailureMsg(r) == IF r = "non2xx" THEN {"HTTP"} ELSE {}

\* the catch block of executeRequests: the error pushed, then the recovery r
SendFailed(first, resp, r) ==
  [events |-> first \o r.events,
   errors |-> <<ErrorTemplate("PublishingExecutionService", "high",
                              SendFailureMsg(resp[1]))>> \o r.errors,
   touched |-> FALSE]

\* executeRequests for the one request generateAPIRequests returns:
\* the events, the errors pushed to this.errors, whether last_used was set.
ExecuteRequests(request, resp) ==
  IF resp[1] = "ok"
  THEN [events |-> <<SendEvent(request, "original", 0, request.headers,
                               request.body, resp[1])>>,
        errors |-> <<>>, touched |-> TRUE]
  ELSE SendFailed(<<SendEvent(request, "original", 0, request.headers,
                              request.body, resp[1])>>,
                  resp, PubAttemptRecovery(request, resp, 1, 0))

\* ---- connections, schemas and content as the publisher sees them
Destinations == <<"blog", "shop", "news">>

MkConnection(name, active) ==
  [name |-> name, is_active |-> active, auth_type |-> "api_key", last_used |-> 0]

MkEndpoint(path, method, hasBody, required, properties) ==
  [path |-> path, method |-> method, hasBody |-> hasBody,
   required |-> required, properties |-> properties]

\* a content type: its name, the names of its fields, and those marked required
MkContentType(name, fields, required) ==
  [name |-> name, fields |-> fields, required |-> required]

\* extractContentTypes: the article type, when a path names articles or posts
ArticleType ==
  MkContentType("article", {"title", "body", "author", "published_at"}, {"title", "body"})

\* createDefaultSchema
DefaultSchema ==
  [endpoints |-> <<MkEndpoint("/api/content", "POST", TRUE, {"title", "body"},
                              {"title", "body", "type"})>>,
   content_types |-> <<MkContentType("content", {"title", "body", "type"}, {"title", "body"})>>]

\* discoverSchemaByProbing when only /api/items answers
ItemsSchema ==
  [endpoints |-> <<MkEndpoint("/api/items", "GET", FALSE, {}, {}),
                   MkEndpoint("/api/items", "POST", FALSE, {}, {})>>,
   content_types |-> <<>>]

\* discoverSchemaByProbing when only /api/articles answers
ArticlesSchema ==
  [endpoints |-> <<MkEndpoint("/api/articles", "GET", FALSE, {}, {}),
                   MkEndpoint("/api/articles", "POST", FALSE, {}, {})>>,
   content_types |-> <<ArticleType>>]

\* discoverSchemaByProbing when /api/articles and /api/content answer
ProbedSchema ==
  [endpoints |-> <<MkEndpoint("/api/articles", "GET", FALSE, {}, {}),
                   MkEndpoint("/api/articles", "POST", FALSE, {}, {}),
                   MkEndpoint("/api/content", "GET", FALSE, {}, {}),
                   MkEndpoint("/api/content", "POST", FALSE, {}, {})>>,
   content_types |-> <<ArticleType>>]

\* new Error(...) thrown inside the per-connection try of executePublishing
GenerateFailure == ErrorTemplate("PublishingExecutionService", "high", {})

\* what the loop body of executePublishing yields when it throws
GenerateFailed ==
  [requests |-> <<>>, localErrors |-> <<GenerateFailure>>,
   svcErrors |-> <<>>, events |-> <<>>, touched |-> FALSE]

\* what the loop body yields once executeRequests has returned x
Executed(request, x) ==
  [requests |-> <<request>>, localErrors |-> <<>>,
   svcErrors |-> x.errors, events |-> x.events, touched |-> x.touched]

\* the loop body from the generated request on
PublishRequest(processedContent, request, resp) ==
  IF processedContent.intent = "immediate"
  THEN Executed(request, ExecuteRequests(request, resp))
  ELSE [requests |-> <<request>>, localErrors |-> <<>>,
        svcErrors |-> <<>>, events |-> <<>>, touched |-> FALSE]

\* generateAPIRequests and what follows, for the endpoint at idx (0: none)
PublishVia(processedContent, connection, schema, idx, resp) ==
  IF idx = 0 THEN GenerateFailed
  ELSE PublishRequest(processedContent,
                      CreateRequest(processedContent, connection, schema.endpoints[idx]),
                      resp)

\* the per-connection body of the loop of executePublishing
PublishToConnection(processedContent, connection, schemaMap, resp) ==
  IF connection.name \notin DOMAIN schemaMap THEN GenerateFailed
  ELSE PublishVia(processedContent, connection, schemaMap[connection.name],
                  FindEndpointForContentType(schemaMap[connection.name],
                                             processedContent.type),
                  resp)

IsTarget(processedContent, connection) ==
  /\ connection.is_active
  /\ ("all" \in processedContent.target_frontends
        \/ connection.name \in processedContent.target_frontends)

\* one pass of the loop (one) followed by the remaining passes (rest)
LoopStep(name, one, rest) ==
  [requests |-> one.requests \o rest.requests,
   localErrors |-> one.localErrors \o rest.localErrors,
   svcErrors |-> one.svcErrors \o rest.svcErrors,
   events |-> one.events \o rest.events,
   touched |-> (IF one.touched THEN {name} ELSE {}) \cup rest.touched]

RECURSIVE PublishLoop(_, _, _, _)
PublishLoop(processedContent, targetConnections, schemaMap, respOf) ==
  IF targetConnections = <<>>
  THEN [requests |-> <<>>, localErrors |-> <<>>, svcErrors |-> <<>>,
        events |-> <<>>, touched |-> {}]
  ELSE LoopStep(Head(targetConnections).name,
                PublishToConnection(processedContent, Head(targetConnections), schemaMap,
                                    respOf[Head(targetConnections).name]),
                PublishLoop(processedContent, Tail(targetConnections), schemaMap, respOf))

PublishSuccessOnlyClean(errorCount, targetCount) == errorCount = 0
PublishSuccess(errorCount, targetCount) == errorCount = 0 \/ errorCount < targetCount

\* the ProcessingResult built after the loop returned r
LoopResult(targetConnections, r) ==
  [success |-> PublishSuccess(Len(r.localErrors), Len(targetConnections)),
   requests |-> r.requests, errors |-> r.localErrors,
   svcErrors |-> r.svcErrors, events |-> r.events, touched |-> r.touched,
   targets |-> [i \in DOMAIN targetConnections |-> targetConnections[i].name]]

\* executePublishing from the filtered connections on
PublishTargets(processedContent, targetConnections, schemaMap, respOf) ==
  IF targetConnections = <<>>
  THEN [success |-> FALSE, requests |-> <<>>,
        errors |-> <<ErrorTemplate("PublishingExecutionService", "critical",
                                   {"connection"})>>,
        svcErrors |-> <<>>, events |-> <<>>, touched |-> {},
        targets |-> <<>>]
  ELSE LoopResult(targetConnections,
                  PublishLoop(processedContent, targetConnections, schemaMap, respOf))

\* executePublishing(processedContent, frontendConnections, schemas)
ExecutePublishing(processedContent, frontendConnections, schemaMap, respOf) ==
  PublishTargets(processedContent,
                 SelectSeq(frontendConnections, LAMBDA c : IsTarget(processedContent, c)),
                 schemaMap, respOf)

\* Error objects for templates created at time ts, identities from id0 on.
NewErrors(templates, id0, ts) ==
  [i \in DOMAIN templates |->
     [id |-> id0 + i - 1, ts |-> ts, component |-> templates[i].component,
      severity |-> templates[i].severity, msg |-> templates[i].msg,
      resolved |-> FALSE]]

\* ---- the publisher as a state machine
NoContent ==
  [type |-> "none", intent |-> "none", target_frontends |-> {}, fields |-> {}, media |-> 0]
NoPubCall ==
  [content |-> NoContent, passed |-> <<>>, targets |-> <<>>, success |-> FALSE,
   requests |-> <<>>, errors |-> <<>>, svcNew |-> <<>>, events |-> <<>>]

InitPub(connections, schemaMap, outcomes) ==
  /\ conns = connections
  /\ net = outcomes
  /\ schemas = schemaMap
  /\ pubErrors = <<>>
  /\ pubCalls = 0
  /\ pubCall = NoPubCall

NoSchemas == [n \in {} |-> DefaultSchema]

\* Sequences of fetch outcomes: what follows the first 2xx is never consumed.
RespSeqs ==
  {r \in [1..MaxAttempts -> Responses] :
     \A i \in 1..MaxAttempts : r[i] = "ok" => \A j \in i..MaxAttempts : r[j] = "ok"}

AllOk == [i \in 1..MaxAttempts |-> "ok"]
AllTransport == [i \in 1..MaxAttempts |-> "transport"]
AllNon2xx == [i \in 1..MaxAttempts |-> "non2xx"]

Intents == {"immediate", "scheduled", "draft"}
ContentFields == {"title", "body", "tags"}

\* the effects of an executePublishing call that returned r at time t
PubReturn(processedContent, passed, r, t) ==
  /\ pubErrors' = pubErrors \o NewErrors(r.svcErrors, nextId + Len(r.errors), t)
  /\ conns' = [i \in DOMAIN conns |->
                 IF conns[i].name \in r.touched
                 THEN [conns[i] EXCEPT !.last_used = t] ELSE conns[i]]
  /\ pubCall' = [content |-> processedContent,
                 passed |-> passed,
                 targets |-> r.targets, success |-> r.success,
                 requests |-> r.requests,
                 errors |-> NewErrors(r.errors, nextId, t),
                 svcNew |-> NewErrors(r.svcErrors, nextId + Len(r.errors), t),
                 events |-> r.events]
  /\ nextId' = nextId + Len(r.errors) + Len(r.svcErrors)
  /\ clock' = t

\* executePublishing called with the connections at the positions idxs
PubExecutePublishing(processedContent, idxs) ==
  /\ pubCalls < MaxPubCalls
  /\ \E t \in {clock, clock + 1} :
       /\ t <= MaxClock
       /\ PubReturn(processedContent, [i \in DOMAIN idxs |-> conns[idxs[i]].name],
                    ExecutePublishing(processedContent,
                                      [i \in DOMAIN idxs |-> conns[idxs[i]]],
                                      schemas, net),
                    t)
  /\ pubCalls' = pubCalls + 1
  /\ UNCHANGED <<schemas, net, ehErrors, errorThresholds, recoveryStrategies, logLimit, calc, inFlight, ehCalls, lastHandled, reached,
                 ctlVars>>

\* executePublishing for one destination
PubPublishOne ==
  \E intent \in Intents :
    PubExecutePublishing([type |-> "content", intent |-> intent,
                          target_frontends |-> {Destinations[1]},
                          fields |-> ContentFields, media |-> 0],
                         <<1>>)

ContentTypes == {"content", "product"}
TargetSets == {{"all"}, {"blog"}, {"blog", "shop"}}
RespScenarios ==
  {[n \in {Destinations[i] : i \in DOMAIN Destinations} |-> AllOk],
   [n \in {Destinations[i] : i \in DOMAIN Destinations} |->
      IF n = "blog" THEN AllTransport ELSE AllOk],
   [n \in {Destinations[i] : i \in DOMAIN Destinations} |-> AllNon2xx]}

\* executePublishing for all the caller's destinations
PubPublishMany ==
  \E intent \in Intents, type \in ContentTypes, targets \in TargetSets :
    PubExecutePublishing([type |-> type, intent |-> intent,
                          target_frontends |-> targets, fields |-> ContentFields,
                          media |-> 0],
                         [i \in DOMAIN conns |-> i])

\* clearErrors() of the publisher
PubClearErrors ==
  /\ pubErrors # <<>>
  /\ pubErrors' = <<>>
  /\ UNCHANGED <<conns, schemas, pubCalls, pubCall, net, ehVars, calc, ctlVars>>

\* what a caller may hand over for one destination
ConnKinds == {<<TRUE, "default">>, <<FALSE, "default">>, <<TRUE, "none">>, <<TRUE, "items">>}

SchemaOfKind(kind) == IF kind = "items" THEN ItemsSchema ELSE DefaultSchema

\* =========================================================================
\* EmailInterpretationService
\* =========================================================================
\* A text is the set of the phrases of the vocabulary below that it contains,
\* in the spelling it has in the message.
\* toLowerCase(), for the capitalised spellings the messages use
ToLowerCase(w) ==
  CASE w = "Blog" -> "blog"
    [] w = "Post" -> "post"
    [] w = "Tag1" -> "tag1"
    [] OTHER -> w

LowerText(text) == {ToLowerCase(w) : w \in text}

\* The lines of a body that tag extraction looks at: a run of hashtags
\* ("#w1 #w2"), a tags line ("tags: w1, w2"), a category line ("category: w").
\* Each has at least one word.
HashLine(words) == [kind |-> "hash", words |-> words]
TagsLine(words) == [kind |-> "tags", words |-> words]
CategoryLine(words) == [kind |-> "category", words |-> words]

\* the words of those lines, which are part of the body's text
LineWords(lines) ==
  UNION {{lines[i].words[j] : j \in DOMAIN lines[i].words} : i \in DOMAIN lines}

\* what the body contains: its phrases and the words of its tag lines
BodyText(email) == email.body \cup LineWords(email.lines)

\* text.match(pattern) for the three tagPatterns, each match already passed
\* through replace(/[#\s,:]/g, ''): a hashtag gives its word; a tags or
\* category line gives the label joined to the text up to the first comma
MatchesOfLine(line, kind) ==
  IF line.kind # kind THEN <<>>
  ELSE IF kind = "hash" THEN [j \in DOMAIN line.words |-> ToLowerCase(line.words[j])]
  ELSE <<kind \o ToLowerCase(line.words[1])>>

RECURSIVE MatchesOf(_, _)
MatchesOf(lines, kind) ==
  IF lines = <<>> THEN <<>>
  ELSE MatchesOfLine(Head(lines), kind) \o MatchesOf(Tail(lines), kind)

\* tags.push(tag) unless tags.includes(tag), for the matches in order
RECURSIVE PushNew(_, _)
PushNew(tags, matches) ==
  IF matches = <<>> THEN tags
  ELSE PushNew(IF \E i \in DOMAIN tags : tags[i] = Head(matches)
               THEN tags ELSE Append(tags, Head(matches)),
               Tail(matches))

\* extractTags: the patterns are applied one after the other
ExtractTags(lines) ==
  PushNew(PushNew(PushNew(<<>>, MatchesOf(lines, "hash")),
                  MatchesOf(lines, "tags")),
          MatchesOf(lines, "category"))

ImmediateWords == {"publish now", "immediate", "asap"}
ScheduledWords == {"schedule", "later", "specific time"}
DraftWords == {"draft", "save", "review first"}

DetermineIntent(body) ==
  IF LowerText(body) \cap ImmediateWords # {} THEN "immediate"
  ELSE IF LowerText(body) \cap ScheduledWords # {} THEN "scheduled"
  ELSE IF LowerText(body) \cap DraftWords # {} THEN "draft"
  ELSE "immediate"

NamedFrontends(text) ==
  (IF text \cap {"main site", "website", "homepage"} # {} THEN {"main_site"} ELSE {})
    \cup (IF text \cap {"developer portal", "dev portal", "api docs"} # {}
          THEN {"developer_portal"} ELSE {})
    \cup (IF text \cap {"blog", "news site"} # {} THEN {"blog"} ELSE {})
    \cup (IF text \cap {"admin panel", "dashboard"} # {} THEN {"admin_panel"} ELSE {})

ExtractTargetFrontends(body) ==
  IF NamedFrontends(LowerText(body)) # {} THEN NamedFrontends(LowerText(body)) ELSE {"all"}

ClassifyContentType(text) ==
  IF LowerText(text) \cap {"blog", "article", "post"} # {} THEN "article"
  ELSE IF LowerText(text) \cap {"product", "item", "listing"} # {} THEN "product"
  ELSE IF LowerText(text) \cap {"update", "changes", "modified"} # {} THEN "update"
  ELSE IF LowerText(text) \cap {"announcement", "news", "important"} # {} THEN "announcement"
  ELSE "other"

\* extractContent: the keys of the content object
ExtractedFields == {"title", "body", "author", "created_at", "excerpt", "tags", "metadata"}

\* interpretEmail of the service, for an email whose body is a string
InterpretEmail(email) ==
  [type |-> ClassifyContentType(email.subject \cup BodyText(email)),
   intent |-> DetermineIntent(BodyText(email)),
   target_frontends |-> ExtractTargetFrontends(BodyText(email)),
   fields |-> ExtractedFields,
   media |-> email.attachments]

\* the error interpretEmail records before it rethrows
InterpretFailure == ErrorTemplate("EmailInterpretationService", "high", {})

\* createFallbackProcessedContent of the controller
FallbackProcessedContent ==
  [type |-> "other", intent |-> "draft", target_frontends |-> {"all"},
   fields |-> {"title", "body", "author", "created_at"},
   media |-> 0]

\* =========================================================================
\* FrontendConnectionService
\* =========================================================================
\* How a destination answers during manageConnection: "invalid" fails
\* validateConnection, "unreachable" rejects the probe GET, "down" answers it
\* with a non-2xx response, "generic" has a schema source that cannot be
\* fetched or parsed, "bare" answers none of the conventional paths, and the
\* others answer some of them. "openapi" and "titled" supply an OpenAPI
\* document as api_schema, the first without info.title, the second with one.
Behaviours == {"up", "articles", "items", "bare", "generic", "down", "unreachable",
               "invalid", "openapi", "titled"}

\* validateConnection: whether the connection is valid, and the errors recorded
ValidateConnection(behaviour) ==
  IF behaviour = "invalid"
  THEN [ok |-> FALSE, errors |-> <<ErrorTemplate("FrontendConnectionService", "high", {})>>]
  ELSE [ok |-> TRUE, errors |-> <<>>]

\* testConnection: response.ok, or false with an error when fetch rejects
TestConnection(behaviour) ==
  CASE behaviour = "unreachable" ->
         [ok |-> FALSE,
          errors |-> <<ErrorTemplate("FrontendConnectionService", "medium", {})>>]
    [] behaviour = "down" -> [ok |-> FALSE, errors |-> <<>>]
    [] OTHER -> [ok |-> TRUE, errors |-> <<>>]

\* commonEndpoints of discoverSchemaByProbing
CommonEndpoints == <<"/api/articles", "/api/posts", "/api/products", "/api/content",
                     "/api/items">>

\* the conventional paths a destination answers with a 2xx response
Answering(behaviour) ==
  CASE behaviour = "up" -> {"/api/articles", "/api/content"}
    [] behaviour = "articles" -> {"/api/articles"}
    [] behaviour = "items" -> {"/api/items"}
    [] OTHER -> {}

\* the loop of discoverSchemaByProbing from the i-th conventional path on
RECURSIVE ProbeFrom(_, _)
ProbeFrom(answering, i) ==
  IF i > Len(CommonEndpoints) THEN <<>>
  ELSE (IF CommonEndpoints[i] \in answering
        THEN <<MkEndpoint(CommonEndpoints[i], "GET", FALSE, {}, {}),
               MkEndpoint(CommonEndpoints[i], "POST", FALSE, {}, {})>>
        ELSE <<>>) \o ProbeFrom(answering, i + 1)

ProductType ==
  MkContentType("product", {"name", "description", "price", "sku"},
                {"name", "description", "price"})

\* extractContentTypes
ExtractContentTypes(endpoints) ==
  (IF \E i \in DOMAIN endpoints : endpoints[i].path \in {"/api/articles", "/api/posts"}
   THEN <<ArticleType>> ELSE <<>>)
  \o (IF \E i \in DOMAIN endpoints : endpoints[i].path = "/api/products"
      THEN <<ProductType>> ELSE <<>>)

\* the schema built from the probed endpoints
SchemaOf(endpoints) ==
  [endpoints |-> endpoints, content_types |-> ExtractContentTypes(endpoints)]

\* discoverSchemaByProbing
DiscoverSchemaByProbing(answering) == SchemaOf(ProbeFrom(answering, 1))

\* operation.requestBody.schema of an OpenAPI operation: absent, or the
\* properties and required names it lists
NoRequestBody == [declared |-> FALSE, properties |-> {}, required |-> {}]
MkRequestBody(properties, required) ==
  [declared |-> TRUE, properties |-> properties, required |-> required]
MkOperation(path, method, body) == [path |-> path, method |-> method, body |-> body]

\* An OpenAPI document: info.title ("" when absent) and its operations.
MkDocument(title, operations) == [title |-> title, operations |-> operations]

\* the document a destination supplies as api_schema
DocumentOf(behaviour) ==
  MkDocument(IF behaviour = "titled" THEN "main_site" ELSE "",
             <<MkOperation("/api/articles", "GET", NoRequestBody),
               MkOperation("/api/articles", "POST", NoRequestBody),
               MkOperation("/api/content", "POST", NoRequestBody)>>)

\* the endpoints parseOpenAPISchema builds from spec.paths; request_body is
\* parseSchema(operation.requestBody.schema), whose properties default to {}
ParsedEndpoints(doc) ==
  [i \in DOMAIN doc.operations |->
     MkEndpoint(doc.operations[i].path, doc.operations[i].method,
                doc.operations[i].body.declared,
                doc.operations[i].body.required,
                doc.operations[i].body.properties)]

\* parseOpenAPISchema: the schema is named spec.info?.title || 'Unknown API'
ParseOpenAPISchema(doc) ==
  [endpoints |-> ParsedEndpoints(doc),
   content_types |-> ExtractContentTypes(ParsedEndpoints(doc)),
   name |-> IF doc.title = "" THEN "Unknown API" ELSE doc.title]

\* The name field of a schema. The schemas that discoverSchemaByProbing and
\* createDefaultSchema build are named after the connection and are kept
\* here without the field.
SchemaName(schema, connectionName) ==
  IF "name" \in DOMAIN schema THEN schema.name ELSE connectionName

\* discoverAPISchema: the schema returned and the errors recorded
DiscoverAPISchema(behaviour) ==
  IF behaviour = "generic"
  THEN [schema |-> DefaultSchema,
        errors |-> <<ErrorTemplate("FrontendConnectionService", "medium", {})>>]
  ELSE IF behaviour \in {"openapi", "titled"}
  THEN [schema |-> ParseOpenAPISchema(DocumentOf(behaviour)), errors |-> <<>>]
  ELSE [schema |-> DiscoverSchemaByProbing(Answering(behaviour)), errors |-> <<>>]

\* manageConnection after a probe that answered 2xx
ManageDiscovered(d) == [ok |-> TRUE, errors |-> d.errors, schema |-> d.schema]

\* manageConnection after validateConnection returned true
ManageTested(behaviour, t) ==
  IF t.ok THEN ManageDiscovered(DiscoverAPISchema(behaviour))
  ELSE [ok |-> FALSE, errors |-> t.errors, schema |-> DefaultSchema]

ManageValidated(behaviour, v) ==
  IF v.ok THEN ManageTested(behaviour, TestConnection(behaviour))
  ELSE [ok |-> FALSE, errors |-> v.errors, schema |-> DefaultSchema]

\* manageConnection: the value returned, the errors recorded, the schema stored
\* (the schema field is read only when ok is true)
ManageConnection(behaviour) == ManageValidated(behaviour, ValidateConnection(behaviour))

\* =========================================================================
\* ContentTransformationService
\* =========================================================================
SimilarTypes(contentType) ==
  CASE contentType = "article" -> {"post", "content", "blog"}
    [] contentType = "product" -> {"item", "listing"}
    [] contentType = "update" -> {"news", "announcement"}
    [] contentType = "announcement" -> {"news", "update"}
    [] OTHER -> {}

FirstIndex(S) == IF S = {} THEN 0 ELSE CHOOSE i \in S : \A j \in S : i <= j

\* findContentType: the index of the resolved content type, 0 when none
FindContentType(schema, contentType) ==
  IF \E i \in DOMAIN schema.content_types : schema.content_types[i].name = contentType
  THEN FirstIndex({i \in DOMAIN schema.content_types :
                     schema.content_types[i].name = contentType})
  ELSE IF \E i \in DOMAIN schema.content_types :
            schema.content_types[i].name \in SimilarTypes(contentType)
  THEN FirstIndex({i \in DOMAIN schema.content_types :
                     schema.content_types[i].name \in SimilarTypes(contentType)})
  ELSE IF schema.content_types # <<>> THEN 1 ELSE 0

\* mapSourceField, for the fields of the schemas above
MapSourceField(targetField, contentType) ==
  CASE contentType = "article" /\ targetField = "published_at" -> "created_at"
    [] contentType = "product" /\ targetField = "name" -> "title"
    [] contentType = "product" /\ targetField = "description" -> "body"
    [] contentType = "product" /\ targetField = "price" -> "metadata.price"
    [] contentType = "product" /\ targetField = "sku" -> "metadata.sku"
    [] OTHER -> targetField

\* applyCustomTransformations: the fields injected for a schema name
CustomFields(frontendName) ==
  CASE frontendName = "main_site" -> {"status", "featured"}
    [] frontendName = "developer_portal" -> {"technical", "audience"}
    [] frontendName = "blog" -> {"comments_enabled", "shareable"}
    [] OTHER -> {}

MappedFields(processedContent, contentType) ==
  {f \in contentType.fields :
     MapSourceField(f, processedContent.type) \in processedContent.fields}

\* transformMedia: the frontend_field of the ContentMapping pushed for the media files
MediaFields(processedContent) == IF processedContent.media > 0 THEN {"media"} ELSE {}

\* the error transformContent records before it rethrows
TransformFailure == ErrorTemplate("ContentTransformationService", "high", {"transformation"})

\* transformContent(processedContent, targetSchema) for the content type at idx
TransformWith(processedContent, schema, frontendName, idx) ==
  IF idx = 0
  THEN [threw |-> TRUE, fields |-> {}, mapped |-> {}, mappings |-> 0]
  ELSE [threw |-> FALSE,
        fields |-> MappedFields(processedContent, schema.content_types[idx])
                     \cup MediaFields(processedContent)
                     \cup CustomFields(frontendName),
        mapped |-> MappedFields(processedContent, schema.content_types[idx])
                     \cup MediaFields(processedContent),
        mappings |-> Cardinality(MappedFields(processedContent, schema.content_types[idx])
                                   \cup MediaFields(processedContent))]

TransformContent(processedContent, schema, frontendName) ==
  TransformWith(processedContent, schema, frontendName,
                FindContentType(schema, processedContent.type))

\* =========================================================================
\* FrameworkController
\* =========================================================================
\* determineOverallStatus, from the four stages' error counts and the
\* success flags of the ProcessingResults
SumSeq(counts) == counts[1] + counts[2] + counts[3] + counts[4]
CountTrue(flags) == Cardinality({i \in DOMAIN flags : flags[i]})

IsPartialAtThree(totalErrors, successfulPublishing) ==
  successfulPublishing > 0 \/ totalErrors <= 3
IsPartial(totalErrors, successfulPublishing) == successfulPublishing > 0 \/ totalErrors < 3

DetermineOverallStatus(counts, flags) ==
  IF SumSeq(counts) = 0 /\ CountTrue(flags) = Len(flags) THEN "success"
  ELSE IF IsPartial(SumSeq(counts), CountTrue(flags)) THEN "partial_success"
  ELSE "failure"

\* generateNextSteps
GenerateNextSteps(totalErrors, flags) ==
  (IF totalErrors > 0 THEN <<"Review and resolve errors">> ELSE <<>>)
    \o (IF CountTrue(flags) < Len(flags)
        THEN <<"Retry failed publishing operations">> ELSE <<>>)
    \o <<"System health check">>

\* generateActions
GenerateActions(activeNames, transformedNames, results) ==
  [i \in DOMAIN activeNames |-> MkAction("connect", activeNames[i], "high", "connected")]
    \o [i \in DOMAIN transformedNames |->
          MkAction("transform", transformedNames[i], "medium", "transformed")]
    \o [i \in DOMAIN results |->
          MkAction(IF results[i].success THEN "publish" ELSE "error",
                   IF i \in DOMAIN activeNames THEN activeNames[i] ELSE "unknown",
                   IF results[i].success THEN "medium" ELSE "high",
                   "publish_status")]

\* ---- handleError over a list of errors, as the stage wrappers call it
MarkIds(errors, ids) ==
  [i \in DOMAIN errors |->
     IF errors[i].id \in ids THEN [errors[i] EXCEPT !.resolved = TRUE] ELSE errors[i]]

HandleJoin(id, actions, marked, rest) ==
  [log |-> rest.log, actions |-> actions \o rest.actions,
   resolved |-> (IF marked THEN {id} ELSE {}) \cup rest.resolved]

RECURSIVE HandleAll(_, _, _, _)
HandleRest(th, limit, rest, id, r) ==
  HandleJoin(id, r.actions, r.marked, HandleAll(r.log, th, limit, rest))

HandleAll(log, th, limit, errors) ==
  IF errors = <<>>
  THEN [log |-> log, actions |-> <<>>, resolved |-> {}]
  ELSE HandleRest(th, limit, Tail(errors), Head(errors).id,
                  HandleError(log, th, limit, Head(errors)))

\* ---- the input of a processInput call
NullConnection == [name |-> "null", is_active |-> FALSE, auth_type |-> "none", last_used |-> 0]

WellFormed == [email |-> TRUE, frontend_connections |-> TRUE,
               user_context |-> TRUE, system_state |-> TRUE]
Malformed == {[WellFormed EXCEPT !.email = FALSE],
              [WellFormed EXCEPT !.frontend_connections = FALSE],
              [WellFormed EXCEPT !.user_context = FALSE],
              [WellFormed EXCEPT !.system_state = FALSE],
              [WellFormed EXCEPT !.user_context = FALSE, !.system_state = FALSE]}

\* attachments: the number of entries of the attachments array
MkEmail(subject, body, hasBody) ==
  [subject |-> subject, body |-> body, hasBody |-> hasBody, attachments |-> 0,
   lines |-> <<>>]
WithLines(email, lines) == [email EXCEPT !.lines = lines]
WithAttachments(email, n) == [email EXCEPT !.attachments = n]
PlainEmail == MkEmail({}, {}, TRUE)
Emails == {PlainEmail,
           MkEmail({}, {"schedule", "blog"}, TRUE),
           MkEmail({}, {"draft"}, TRUE),
           WithAttachments(PlainEmail, 1),
           MkEmail({}, {}, FALSE)}

\* one entry of frontend_connections: the is_active it carries and how the
\* destination behaves ("null": the entry is null; "hole": the array has no
\* element at the position, which map skips and for...of yields as undefined)
MkSupply(active, behaviour) == [active |-> active, behaviour |-> behaviour]
Up == MkSupply(TRUE, "up")
SupplyLists == {<<>>,
                <<Up, Up>>,
                <<MkSupply(FALSE, "up"), Up>>,
                <<Up, MkSupply(TRUE, "unreachable")>>,
                <<MkSupply(TRUE, "unreachable"), Up>>,
                <<MkSupply(TRUE, "items"), Up>>,
                <<MkSupply(TRUE, "articles"), Up>>,
                <<MkSupply(TRUE, "articles"), MkSupply(TRUE, "unreachable")>>,
                <<MkSupply(TRUE, "generic"), MkSupply(TRUE, "down")>>,
                <<MkSupply(TRUE, "bare"), Up>>,
                <<MkSupply(TRUE, "openapi"), MkSupply(TRUE, "titled")>>,
                <<MkSupply(TRUE, "unreachable"), MkSupply(TRUE, "invalid")>>,
                <<MkSupply(TRUE, "articles"), MkSupply(TRUE, "items")>>}

RunNets == {[n \in {Destinations[i] : i \in DOMAIN Destinations} |-> AllOk],
            [n \in {Destinations[i] : i \in DOMAIN Destinations} |-> AllNon2xx]}

Submissions ==
  [shape : {WellFormed}, email : Emails, supplies : SupplyLists, net : RunNets]
    \cup [shape : Malformed, email : {PlainEmail}, supplies : {<<Up, Up>>},
          net : {[n \in {Destinations[i] : i \in DOMAIN Destinations} |-> AllOk]}]
    \cup [shape : {[WellFormed EXCEPT !.user_context = FALSE]}, email : {PlainEmail},
          supplies : {<<Up, MkSupply(TRUE, "hole")>>},
          net : {[n \in {Destinations[i] : i \in DOMAIN Destinations} |-> AllOk]}]
    \cup [shape : {WellFormed}, email : {PlainEmail},
          supplies : {<<Up, MkSupply(TRUE, "null")>>, <<Up, MkSupply(TRUE, "hole")>>},
          net : {[n \in {Destinations[i] : i \in DOMAIN Destinations} |-> AllOk]}]

NoSubmission ==
  [shape |-> WellFormed, email |-> PlainEmail, supplies |-> <<>>, net |-> NoSchemas]

\* the largest total_processed a submission's system_state arrives with
MaxProcessed == 2

\* input.system_state before processInput touched it
NoSystemState == [total_processed |-> 0, success_rate |-> 100, active_connections |-> <<>>]

NewRun(submission) ==
  [input |-> submission, idx |-> 1, content |-> NoContent,
   interpAlias |-> FALSE, interpErrors |-> <<>>,
   active |-> <<>>, connErrors |-> <<>>,
   transformed |-> <<>>, transformedFor |-> {}, transformedNames |-> <<>>,
   mappings |-> 0, transErrors |-> <<>>,
   results |-> <<>>, pubStageErrors |-> <<>>,
   trace |-> <<>>, recovery |-> <<>>, cached |-> NoSchemas,
   system_state |-> NoSystemState]

NoOutput ==
  [threw |-> FALSE, caught |-> FALSE, overall |-> "none", errors |-> <<>>,
   mappings |-> 0, next_steps |-> <<>>, actions |-> <<>>]

\* processInput ended by an exception that reached the caller
ThrewOutput(caught) == [NoOutput EXCEPT !.threw = TRUE, !.caught = caught]

\* no other call is suspended
NoParked ==
  [pc |-> "idle", run |-> NewRun(NoSubmission), output |-> NoOutput, conns |-> <<>>,
   net |-> NoSchemas]

InitCtl ==
  /\ pc = "idle"
  /\ run = NewRun(NoSubmission)
  /\ runs = 0
  /\ output = NoOutput
  /\ parked = NoParked
  /\ emailErrors = <<>>
  /\ fcsErrors = <<>>
  /\ ctsErrors = <<>>

\* a pipeline that publishes to each destination right after its transform
StageAfterPerDestination(stage, idx, supplied, activeCount) ==
  CASE stage = "interpret" /\ supplied > 0 -> <<"connect", 1>>
    [] stage = "interpret" -> <<"finish", 1>>
    [] stage = "connect" /\ idx < supplied -> <<"connect", idx + 1>>
    [] stage = "connect" /\ activeCount > 0 -> <<"transform", 1>>
    [] stage = "connect" -> <<"finish", 1>>
    [] stage = "transform" -> <<"publish", idx>>
    [] stage = "publish" /\ idx < activeCount -> <<"transform", idx + 1>>
    [] OTHER -> <<"finish", 1>>

\* the stage and loop index that follow position idx of a stage's loop
StageAfter(stage, idx, supplied, activeCount) ==
  CASE stage = "interpret" /\ supplied > 0 -> <<"connect", 1>>
    [] stage = "interpret" -> <<"finish", 1>>
    [] stage = "connect" /\ idx < supplied -> <<"connect", idx + 1>>
    [] stage = "connect" /\ activeCount > 0 -> <<"transform", 1>>
    [] stage = "connect" -> <<"finish", 1>>
    [] stage = "transform" /\ idx < activeCount -> <<"transform", idx + 1>>
    [] stage = "transform" -> <<"publish", 1>>
    [] stage = "publish" /\ idx < activeCount -> <<"publish", idx + 1>>
    [] OTHER -> <<"finish", 1>>

\* ---- processInput, one action per service call it makes
SystemError(severity, id, t) ==
  NewErrors(<<ErrorTemplate("FrameworkController", severity, {})>>, id, t)[1]

MarkRun(r, ids) ==
  [r EXCEPT !.interpErrors = MarkIds(@, ids), !.connErrors = MarkIds(@, ids),
            !.transErrors = MarkIds(@, ids), !.pubStageErrors = MarkIds(@, ids)]

\* the service calls of the processInput call, in the order they returned
Traced(r, stage, name) == Append(r.trace, [stage |-> stage, name |-> name])

RunNext(r, stage) ==
  StageAfter(stage, r.idx, Len(r.input.supplies), Len(r.active))

\* processInput up to the try block
CtlStart(submission) ==
  /\ run' = NewRun(submission)
  /\ conns' = IF submission.shape.frontend_connections
              THEN [i \in DOMAIN submission.supplies |->
                      IF submission.supplies[i].behaviour \in {"null", "hole"}
                      THEN NullConnection
                      ELSE MkConnection(Destinations[i], submission.supplies[i].active)]
              ELSE <<>>
  /\ net' = submission.net
  /\ IF /\ submission.shape.email
        /\ submission.shape.frontend_connections
        /\ \A i \in DOMAIN submission.supplies :
             submission.supplies[i].behaviour # "null"
     THEN pc' = "interpret" /\ output' = NoOutput
     ELSE pc' = "idle" /\ output' = ThrewOutput(FALSE)

CtlProcessInput ==
  /\ pc = "idle"
  /\ runs < MaxRuns
  /\ \E submission \in Submissions : CtlStart(submission)
  /\ runs' = runs + 1
  /\ UNCHANGED <<ehVars, calc, schemas, pubErrors, pubCalls, pubCall,
                 emailErrors, fcsErrors, ctsErrors, parked>>

\* interpretEmail of the controller once the service returned
CtlInterpreted(content, h, t) ==
  /\ ehErrors' = h.log
  /\ emailErrors' = MarkIds(emailErrors, h.resolved)
  /\ run' = [MarkRun(run, h.resolved) EXCEPT
               !.content = content, !.interpAlias = TRUE,
               !.trace = Traced(run, "interpret", "email"),
               !.recovery = @ \o h.actions,
               !.idx = RunNext(run, "interpret")[2]]
  /\ nextId' = nextId
  /\ clock' = t

\* interpretEmail of the controller once the service threw
CtlInterpretFailed(failure, sysErr, h, t) ==
  /\ ehErrors' = h.log
  /\ emailErrors' = emailErrors \o failure
  /\ run' = [run EXCEPT !.content = FallbackProcessedContent,
                        !.interpAlias = FALSE, !.interpErrors = <<sysErr>>,
                        !.trace = Traced(run, "interpret", "email"),
                        !.recovery = @ \o h.actions,
                        !.idx = RunNext(run, "interpret")[2]]
  /\ nextId' = nextId + 2
  /\ clock' = t

CtlInterpretEmail ==
  /\ pc = "interpret"
  /\ \E t \in {clock, clock + 1} :
       /\ t <= MaxClock
       /\ IF run.input.email.hasBody
          THEN CtlInterpreted(InterpretEmail(run.input.email),
                              HandleAll(ehErrors, errorThresholds, logLimit, emailErrors), t)
          ELSE CtlInterpretFailed(NewErrors(<<InterpretFailure>>, nextId, t),
                                  SystemError("high", nextId + 1, t),
                                  HandleError(ehErrors, errorThresholds, logLimit,
                                              SystemError("high", nextId + 1, t)), t)
  /\ pc' = RunNext(run, "interpret")[1]
  /\ UNCHANGED <<errorThresholds, recoveryStrategies, logLimit, calc, inFlight, ehCalls, lastHandled, reached, pubVars,
                 runs, output, fcsErrors, ctsErrors, parked>>

\* the FrameworkOutput of the catch block, h being what handleError returned
CaughtOutput(sysErr, h) ==
  [threw |-> FALSE, caught |-> TRUE, overall |-> "failure", errors |-> <<sysErr>>,
   mappings |-> 0, next_steps |-> <<"System recovery required">>, actions |-> h.actions]

CtlCaughtHandled(sysErr, h) ==
  /\ ehErrors' = h.log
  /\ output' = CaughtOutput(sysErr, h)

\* the catch block of processInput
CtlCaught(sysErr) ==
  /\ IF run.input.shape.user_context
     THEN CtlCaughtHandled(sysErr, HandleError(ehErrors, errorThresholds, logLimit, sysErr))
     ELSE ehErrors' = ehErrors /\ output' = ThrewOutput(TRUE)
  /\ nextId' = nextId + 1

\* one pass of the loop of manageConnections: manageConnection returned true
CtlConnected(i, schema, recorded, t) ==
  /\ conns' = [conns EXCEPT ![i].is_active = TRUE, ![i].last_used = t]
  /\ schemas' = [n \in DOMAIN schemas \cup {conns[i].name} |->
                   IF n = conns[i].name THEN schema ELSE schemas[n]]
  /\ fcsErrors' = fcsErrors \o recorded
  /\ ehErrors' = ehErrors
  /\ run' = [run EXCEPT !.active = Append(@, i),
                        !.cached = [n \in DOMAIN @ \cup {conns[i].name} |->
                                      IF n = conns[i].name THEN schema ELSE @[n]],
                        !.trace = Traced(run, "connect", conns[i].name),
                        !.idx = StageAfter("connect", run.idx, Len(run.input.supplies),
                                           Len(run.active) + 1)[2]]
  /\ pc' = StageAfter("connect", run.idx, Len(run.input.supplies), Len(run.active) + 1)[1]
  /\ output' = output

\* one pass of the loop of manageConnections: manageConnection returned false
CtlConnectFailed(serviceErrors, h) ==
  /\ fcsErrors' = MarkIds(serviceErrors, h.resolved)
  /\ ehErrors' = h.log
  /\ run' = [MarkRun([run EXCEPT !.connErrors = @ \o serviceErrors], h.resolved)
               EXCEPT !.trace = Traced(run, "connect", conns[run.idx].name),
                      !.recovery = @ \o h.actions,
                      !.idx = RunNext(run, "connect")[2]]
  /\ pc' = RunNext(run, "connect")[1]
  /\ UNCHANGED <<conns, schemas, output>>

CtlManaged(i, m, recorded, t) ==
  /\ IF m.ok
     THEN CtlConnected(i, m.schema, recorded, t)
     ELSE CtlConnectFailed(fcsErrors \o recorded,
                           HandleAll(ehErrors, errorThresholds, logLimit,
                                     fcsErrors \o recorded))
  /\ nextId' = nextId + Len(recorded)
  /\ clock' = t

\* the loop of manageConnections reaches a position without an element: the
\* inner catch throws in turn, the outer catch rethrows
CtlConnectionThrew(t) ==
  /\ CtlCaught(SystemError("critical", nextId, t))
  /\ pc' = "idle"
  /\ clock' = t
  /\ UNCHANGED <<conns, schemas, fcsErrors, run>>

CtlManageConnection ==
  /\ pc = "connect"
  /\ \E t \in {clock, clock + 1} :
       /\ t <= MaxClock
       /\ IF run.input.supplies[run.idx].behaviour = "hole"
          THEN CtlConnectionThrew(t)
          ELSE CtlManaged(run.idx, ManageConnection(run.input.supplies[run.idx].behaviour),
                          NewErrors(ManageConnection(run.input.supplies[run.idx].behaviour)
                                      .errors,
                                    nextId, t),
                          t)
  /\ UNCHANGED <<errorThresholds, recoveryStrategies, logLimit, calc, inFlight, ehCalls, lastHandled, reached,
                 pubErrors, pubCalls, pubCall, net,
                 runs, emailErrors, ctsErrors, parked>>

\* one pass of the loop of transformContent: the service returned
CtlTransformed(name, tr, h) ==
  /\ ctsErrors' = MarkIds(ctsErrors, h.resolved)
  /\ ehErrors' = h.log
  /\ run' = [MarkRun([run EXCEPT !.transErrors = @ \o ctsErrors], h.resolved) EXCEPT
               !.transformed = [n \in DOMAIN run.transformed \cup {name} |->
                                  IF n = name THEN tr.fields ELSE run.transformed[n]],
               !.transformedNames = IF name \in DOMAIN run.transformed
                                    THEN @ ELSE Append(@, name),
               !.transformedFor = @ \cup {name},
               !.trace = Traced(run, "transform", name),
               !.recovery = @ \o h.actions,
               !.mappings = @ + tr.mappings,
               !.idx = RunNext(run, "transform")[2]]
  /\ nextId' = nextId

\* Where the run goes on after the catch block inside the loop of
\* transformContent: with the next active destination, or, were a failed
\* transform to end the stage, with the end of the run.
AfterTransformFailureAbort(r) == <<"finish", 1>>
AfterTransformFailure(r) == RunNext(r, "transform")

\* one pass of the loop of transformContent: the service threw
CtlTransformFailed(name, failure, sysErr, h) ==
  /\ ctsErrors' = ctsErrors \o failure
  /\ ehErrors' = h.log
  /\ run' = [run EXCEPT !.transErrors = Append(@, sysErr),
                        !.transformedFor = @ \cup {name},
                        !.trace = Traced(run, "transform", name),
                        !.recovery = @ \o h.actions,
                        !.idx = AfterTransformFailure(run)[2]]
  /\ nextId' = nextId + 2

CtlTransformWith(name, tr, t) ==
  /\ IF tr.threw
     THEN CtlTransformFailed(name, NewErrors(<<TransformFailure>>, nextId, t),
                             SystemError("high", nextId + 1, t),
                             HandleError(ehErrors, errorThresholds, logLimit,
                                         SystemError("high", nextId + 1, t)))
     ELSE CtlTransformed(name, tr, HandleAll(ehErrors, errorThresholds, logLimit, ctsErrors))
  /\ pc' = IF tr.threw THEN AfterTransformFailure(run)[1] ELSE RunNext(run, "transform")[1]
  /\ clock' = t

CtlTransformContent ==
  /\ pc = "transform"
  /\ \E t \in {clock, clock + 1} :
       /\ t <= MaxClock
       /\ CtlTransformWith(conns[run.active[run.idx]].name,
                           TransformContent(run.content,
                                            schemas[conns[run.active[run.idx]].name],
                                            SchemaName(schemas[conns[run.active[run.idx]].name],
                                                       conns[run.active[run.idx]].name)),
                           t)
  /\ UNCHANGED <<errorThresholds, recoveryStrategies, logLimit, calc, inFlight, ehCalls, lastHandled, reached, pubVars,
                 runs, output, emailErrors, fcsErrors, parked>>

\* the ProcessedContent the controller hands to the publisher
PublishingContent(name, transformedFields) ==
  [type |-> IF "type" \in transformedFields THEN "transformed" ELSE "content",
   intent |-> IF "publishing_intent" \in transformedFields THEN "transformed"
              ELSE "immediate",
   target_frontends |-> {name},
   fields |-> transformedFields,
   media |-> IF "media" \in transformedFields THEN 1 ELSE 0]

\* some request of the call was answered with a 2xx response
AnsweredOk(events) ==
  \E k \in DOMAIN events : events[k].kind = "send" /\ events[k].resp = "ok"

SendCount(events) == Cardinality({k \in DOMAIN events : events[k].kind = "send"})

\* one pass of the loop of executePublishing: the publisher returned r
CtlPublished(name, processedContent, r, resultErrors, h, t) ==
  /\ PubReturn(processedContent, <<name>>, r, t)
  /\ ehErrors' = h.log
  /\ run' = [MarkRun([run EXCEPT !.pubStageErrors = @ \o resultErrors], h.resolved) EXCEPT
               !.results = Append(@, [name |-> name, success |-> r.success,
                                      intent |-> processedContent.intent,
                                      targets |-> processedContent.target_frontends,
                                      built |-> Len(r.requests),
                                      sent |-> SendCount(r.events),
                                      answered |-> AnsweredOk(r.events)]),
               !.trace = Traced(run, "publish", name),
               !.recovery = @ \o h.actions,
               !.idx = RunNext(run, "publish")[2]]
  /\ pubCalls' = pubCalls + 1

CtlPublishWith(name, processedContent, r, t) ==
  CtlPublished(name, processedContent, r, NewErrors(r.errors, nextId, t),
               HandleAll(ehErrors, errorThresholds, logLimit, NewErrors(r.errors, nextId, t)),
               t)

\* one pass of the loop of executePublishing: nothing was transformed for it
CtlPublishSkipped(sysErr, h, t) ==
  /\ ehErrors' = h.log
  /\ run' = [run EXCEPT !.pubStageErrors = Append(@, sysErr),
                        !.trace = Traced(run, "publish", conns[run.active[run.idx]].name),
                        !.recovery = @ \o h.actions,
                        !.idx = RunNext(run, "publish")[2]]
  /\ nextId' = nextId + 1
  /\ clock' = t
  /\ UNCHANGED <<conns, pubErrors, pubCalls, pubCall>>

CtlPublishTo(connection, t) ==
  IF connection.name \in DOMAIN run.transformed
  THEN CtlPublishWith(connection.name,
                      PublishingContent(connection.name, run.transformed[connection.name]),
                      ExecutePublishing(PublishingContent(connection.name,
                                                          run.transformed[connection.name]),
                                        <<connection>>, schemas, net),
                      t)
  ELSE CtlPublishSkipped(SystemError("high", nextId, t),
                         HandleError(ehErrors, errorThresholds, logLimit,
                                     SystemError("high", nextId, t)),
                         t)

CtlExecutePublishing ==
  /\ pc = "publish"
  /\ \E t \in {clock, clock + 1} :
       /\ t <= MaxClock
       /\ CtlPublishTo(conns[run.active[run.idx]], t)
  /\ pc' = RunNext(run, "publish")[1]
  /\ UNCHANGED <<errorThresholds, recoveryStrategies, logLimit, calc, inFlight, ehCalls, lastHandled, reached, schemas, net,
                 runs, output, emailErrors, fcsErrors, ctsErrors, parked>>

\* the errors of the interpretation stage as the caller sees them
InterpretationErrors == IF run.interpAlias THEN emailErrors ELSE run.interpErrors

StageCounts ==
  <<Len(InterpretationErrors), Len(run.connErrors), Len(run.transErrors),
    Len(run.pubStageErrors)>>

SuccessFlags == [i \in DOMAIN run.results |-> run.results[i].success]

\* the FrameworkOutput of the try block
CompletedOutput ==
  [threw |-> FALSE, caught |-> FALSE,
   overall |-> DetermineOverallStatus(StageCounts, SuccessFlags),
   errors |-> InterpretationErrors \o run.connErrors \o run.transErrors
                \o run.pubStageErrors,
   mappings |-> run.mappings,
   next_steps |-> GenerateNextSteps(SumSeq(StageCounts), SuccessFlags),
   actions |-> GenerateActions([i \in DOMAIN run.active |-> conns[run.active[i]].name],
                               run.transformedNames, run.results)]

\* Math.round(n / d) for d > 0: the nearest integer, a half rounded up
MathRound(n, d) == (2 * n + d) \div (2 * d)

IsActive(connection) == connection.is_active

\* the names of the frontend_connections whose is_active is set
ActiveConnectionNames(connections) ==
  [i \in DOMAIN SelectSeq(connections, IsActive) |-> SelectSeq(connections, IsActive)[i].name]

\* updateSystemState: input.system_state after the call
UpdateSystemState(state, connections, publishingErrors) ==
  [total_processed |-> state.total_processed + 1,
   success_rate |-> MathRound((state.total_processed + 1 - publishingErrors) * 100,
                              state.total_processed + 1),
   active_connections |-> ActiveConnectionNames(connections)]

\* the try block of processInput from generateActions on, the submission's
\* system_state arriving with total_processed = processed
CtlCompleted(processed) ==
  /\ output' = CompletedOutput
  /\ run' = [run EXCEPT !.system_state =
               UpdateSystemState([NoSystemState EXCEPT !.total_processed = processed],
                                 conns, Len(run.pubStageErrors))]
  /\ UNCHANGED <<ehErrors, nextId>>

\* processInput from generateActions to its return
CtlFinish ==
  /\ pc = "finish"
  /\ \E t \in {clock, clock + 1} :
       /\ t <= MaxClock
       /\ clock' = t
       /\ IF run.input.shape.system_state
          THEN \E processed \in 0..MaxProcessed : CtlCompleted(processed)
          ELSE CtlCaught(SystemError("critical", nextId, t)) /\ run' = run
  /\ pc' = "idle"
  /\ UNCHANGED <<errorThresholds, recoveryStrategies, logLimit, calc, inFlight, ehCalls, lastHandled, reached, pubVars,
                 runs, emailErrors, fcsErrors, ctsErrors, parked>>

InitRun ==
  /\ InitEH(LogLimit)
  /\ InitPub(<<>>, NoSchemas, NoSchemas)
  /\ InitCtl

NextRun ==
  \/ CtlProcessInput
  \/ CtlInterpretEmail
  \/ CtlManageConnection
  \/ CtlTransformContent
  \/ CtlExecutePublishing
  \/ CtlFinish

\* ---- two processInput calls on one controller
\* The submissions of the calls that overlap: the same destination names,
\* answering differently.
ConcurrentSubmissions ==
  [shape : {WellFormed}, email : {PlainEmail},
   supplies : {<<MkSupply(TRUE, "articles"), Up>>, <<MkSupply(TRUE, "items"), Up>>},
   net : {[n \in {Destinations[i] : i \in DOMAIN Destinations} |-> AllOk]}]

\* processInput called while another call may be suspended
CtlProcessInputConcurrently ==
  /\ pc = "idle"
  /\ runs < MaxConcurrent
  /\ \E submission \in ConcurrentSubmissions : CtlStart(submission)
  /\ runs' = runs + 1
  /\ UNCHANGED <<ehVars, calc, schemas, pubErrors, pubCalls, pubCall,
                 emailErrors, fcsErrors, ctsErrors, parked>>

\* the call that runs reaches an await (or returns) and the suspended call,
\* or the caller, continues
CtlSwitch ==
  /\ pc # "idle" \/ parked.pc # "idle"
  /\ parked' = [pc |-> pc, run |-> run, output |-> output, conns |-> conns, net |-> net]
  /\ pc' = parked.pc
  /\ run' = parked.run
  /\ output' = parked.output
  /\ conns' = parked.conns
  /\ net' = parked.net
  /\ UNCHANGED <<ehVars, calc, schemas, pubErrors, pubCalls, pubCall, runs,
                 emailErrors, fcsErrors, ctsErrors>>

InitConcurrent == InitRun

NextConcurrent ==
  \/ CtlProcessInputConcurrently
  \/ CtlSwitch
  \/ CtlInterpretEmail
  \/ CtlManageConnection
  \/ CtlTransformContent
  \/ CtlExecutePublishing
  \/ CtlFinish

InitChain ==
  /\ InitEH(LogLimit)
  /\ \E resp \in RespSeqs :
       InitPub(<<MkConnection(Destinations[1], TRUE)>>,
               [n \in {Destinations[1]} |-> DefaultSchema],
               [n \in {Destinations[1]} |-> resp])
  /\ InitCtl

NextChain == PubPublishOne \/ PubClearErrors

InitMany ==
  /\ InitEH(LogLimit)
  /\ \E kinds \in [DOMAIN Destinations -> ConnKinds], respOf \in RespScenarios :
       InitPub([i \in DOMAIN Destinations |-> MkConnection(Destinations[i], kinds[i][1])],
               [n \in {Destinations[i] : i \in {j \in DOMAIN Destinations : kinds[j][2] # "none"}}
                  |-> SchemaOfKind(kinds[CHOOSE i \in DOMAIN Destinations : Destinations[i] = n][2])],
               respOf)
  /\ InitCtl

NextMany == PubPublishMany \/ PubClearErrors

\* ---- determineOverallStatus on its own: processInput stands where the four
\* stages have returned, with every combination of stage error counts and
\* ProcessingResult outcomes
StageErrors(component, n, id0) ==
  NewErrors([i \in 1..n |-> ErrorTemplate(component, "medium", {})], id0, 1)

ResultFlags == UNION {[1..n -> BOOLEAN] : n \in 0..MaxResults}

StagedRun(ce, te, pe, flags) ==
  [NewRun(NoSubmission) EXCEPT
     !.interpAlias = TRUE, !.connErrors = ce, !.transErrors = te, !.pubStageErrors = pe,
     !.active = [i \in DOMAIN flags |-> i],
     !.results = [i \in DOMAIN flags |->
                    [name |-> Destinations[i], success |-> flags[i],
                     intent |-> "immediate", targets |-> {Destinations[i]},
                     built |-> IF flags[i] THEN 1 ELSE 0,
                     sent |-> IF flags[i] THEN 1 ELSE 0,
                     answered |-> flags[i]]]]

InitStaged(ie, ce, te, pe, flags) ==
  /\ ehErrors = ie \o ce \o te \o pe
  /\ errorThresholds = InitialThresholds
  /\ recoveryStrategies = InitialStrategies
  /\ inFlight = [p \in Handlers |-> NoCall]
  /\ calc = NoCalc
  /\ logLimit = LogLimit
  /\ clock = 1
  /\ nextId = 1 + Len(ie) + Len(ce) + Len(te) + Len(pe)
  /\ ehCalls = 0
  /\ lastHandled = NoHandled
  /\ reached = [c \in Components |-> FALSE]
  /\ InitPub([i \in DOMAIN flags |-> MkConnection(Destinations[i], TRUE)],
             [n \in {Destinations[i] : i \in DOMAIN flags} |-> ArticlesSchema],
             [n \in {Destinations[i] : i \in DOMAIN Destinations} |-> AllOk])
  /\ pc = "finish"
  /\ run = StagedRun(ce, te, pe, flags)
  /\ runs = 1
  /\ output = NoOutput
  /\ parked = NoParked
  /\ emailErrors = ie
  /\ fcsErrors = ce
  /\ ctsErrors = te

InitStatus ==
  \E a \in 0..MaxStageErrors, b \in 0..MaxStageErrors, c \in 0..MaxStageErrors,
     d \in 0..MaxStageErrors, flags \in ResultFlags :
    InitStaged(StageErrors("EmailInterpretationService", a, 1),
               StageErrors("FrontendConnectionService", b, 1 + a),
               StageErrors("ContentTransformationService", c, 1 + a + b),
               StageErrors("PublishingExecutionService", d, 1 + a + b + c),
               flags)

NextStatus == CtlFinish

\* =========================================================================
\* Service methods called on their own
\* =========================================================================
\* ---- ContentTransformationService.transformContent
\* the ProcessedContent objects handed to it
DirectContents ==
  [type : {"article", "product", "other"}, intent : {"immediate"},
   target_frontends : {{"all"}},
   fields : {ExtractedFields, {"title"}, {"body", "author"}},
   media : {0, 1}]

\* a document whose POST /api/content declares a request body of its own
StrictDocument ==
  MkDocument("", <<MkOperation("/api/articles", "GET", NoRequestBody),
                   MkOperation("/api/content", "POST",
                               MkRequestBody({"headline", "text"}, {"headline"}))>>)

\* a document whose POST /api/articles declares a request body without properties
LooseDocument ==
  MkDocument("blog", <<MkOperation("/api/articles", "POST", MkRequestBody({}, {}))>>)

Documents == {DocumentOf("openapi"), DocumentOf("titled"), StrictDocument, LooseDocument}

\* the FrontendSchema objects handed to it: the generic one, probed ones, parsed ones
DirectSchemas ==
  {DefaultSchema, ArticlesSchema, ItemsSchema,
   DiscoverSchemaByProbing(Answering("up"))}
    \cup {ParseOpenAPISchema(d) : d \in Documents}

\* the names of the connections the schemas were discovered for
DirectNames == {"blog", "main_site", "shop"}

\* the calls made while the log of the service is followed
DirectCallsMade == IF calc.fn = "none" THEN 0 ELSE calc.n

\* transformContent(processedContent, targetSchema): what it returns, and the
\* error it records when it throws
CtsTransformed(processedContent, schema, name, tr) ==
  /\ calc' = [fn |-> "transformContent", n |-> DirectCallsMade + 1,
              content |-> processedContent, schema |-> schema, name |-> name,
              idx |-> FindContentType(schema, processedContent.type),
              result |-> tr]
  /\ ctsErrors' = IF tr.threw
                  THEN ctsErrors \o NewErrors(<<TransformFailure>>, nextId, clock)
                  ELSE ctsErrors
  /\ nextId' = IF tr.threw THEN nextId + 1 ELSE nextId

CtsTransformContent ==
  /\ DirectCallsMade < MaxDirectCalls
  /\ \E processedContent \in DirectContents, schema \in DirectSchemas, name \in DirectNames :
       CtsTransformed(processedContent, schema, name,
                      TransformContent(processedContent, schema, SchemaName(schema, name)))
  /\ UNCHANGED <<ehErrors, errorThresholds, recoveryStrategies, logLimit, inFlight, clock,
                 ehCalls, lastHandled, reached, pubVars,
                 pc, run, runs, output, emailErrors, fcsErrors, parked>>

\* ---- PublishingExecutionService.prepareRequestBody on what transformContent returned
\* the request body built for the endpoint at i from the transformed content
PubPrepared(processedContent, i) ==
  calc' = [calc EXCEPT !.fn = "prepareRequestBody"]
            @@ [published |-> processedContent, endpoint |-> i,
                body |-> PrepareRequestBody(processedContent, calc.schema.endpoints[i])]

\* generateAPIRequests for the content the controller builds from the
\* transformed content: the endpoint found for its type, and the body prepared
PubPrepareRequestBody ==
  /\ calc.fn = "transformContent"
  /\ ~calc.result.threw
  /\ FindEndpointForContentType(calc.schema,
                                PublishingContent(calc.name, calc.result.fields).type) # 0
  /\ PubPrepared(PublishingContent(calc.name, calc.result.fields),
                 FindEndpointForContentType(calc.schema,
                                            PublishingContent(calc.name,
                                                              calc.result.fields).type))
  /\ UNCHANGED <<ehVars, pubVars, ctlVars>>

\* ---- EmailInterpretationService.interpretEmail
\* the lines with tags that a body is made of
TagLines == {HashLine(<<"Tag1", "tag2">>), HashLine(<<"blog">>), HashLine(<<"tag2">>),
             TagsLine(<<"tag1">>), TagsLine(<<"tag2", "c">>), CategoryLine(<<"c">>)}

RECURSIVE SeqsUpTo(_, _)
SeqsUpTo(S, n) ==
  IF n = 0 THEN {<<>>}
  ELSE SeqsUpTo(S, n - 1)
         \cup {Append(q, x) : q \in {r \in SeqsUpTo(S, n - 1) : Len(r) = n - 1}, x \in S}

\* subject "New Blog Post: X", body "content #blog priority: high publish now"
ScenarioEmail == WithLines(MkEmail({"Blog", "Post"}, {"publish now"}, TRUE),
                           <<HashLine(<<"blog">>)>>)

\* the emails handed to interpretEmail
DirectEmails ==
  {WithLines(MkEmail(subject, body, TRUE), lines) :
     subject \in {{}, {"Blog", "Post"}},
     body \in {{}, {"publish now"}, {"draft", "website"}},
     lines \in SeqsUpTo(TagLines, 1)}
    \cup {WithLines(MkEmail({}, {}, TRUE), lines) : lines \in SeqsUpTo(TagLines, MaxLines)}
    \cup {MkEmail({}, {}, FALSE)}

\* interpretEmail(email): the ProcessedContent it returns with the tags of its
\* content, or the error it records when it throws
EisInterpreted(email) ==
  /\ calc' = [fn |-> "interpretEmail", n |-> DirectCallsMade + 1, email |-> email,
              threw |-> ~email.hasBody,
              result |-> IF email.hasBody THEN InterpretEmail(email) ELSE NoContent,
              tags |-> IF email.hasBody THEN ExtractTags(email.lines) ELSE <<>>]
  /\ emailErrors' = IF email.hasBody THEN emailErrors
                    ELSE emailErrors \o NewErrors(<<InterpretFailure>>, nextId, clock)
  /\ nextId' = IF email.hasBody THEN nextId ELSE nextId + 1

EisInterpretEmail ==
  /\ DirectCallsMade < MaxDirectCalls
  /\ \E email \in DirectEmails : EisInterpreted(email)
  /\ UNCHANGED <<ehErrors, errorThresholds, recoveryStrategies, logLimit, inFlight, clock,
                 ehCalls, lastHandled, reached, pubVars,
                 pc, run, runs, output, fcsErrors, ctsErrors, parked>>

vars == <<ehVars, pubVars, ctlVars, calc>>

InitEC == InitEH(SmallLogLimit) /\ InitPub(<<>>, NoSchemas, NoSchemas) /\ InitCtl

NextEC ==
  /\ EHHandleError \/ EHClearErrors \/ EHResolveError \/ EHSetErrorThreshold
       \/ EHAddRecoveryStrategy
  /\ UNCHANGED <<pubVars, ctlVars>>

InitDefaults == InitEH(LogLimit) /\ InitPub(<<>>, NoSchemas, NoSchemas) /\ InitCtl

NextDefaults == EHHandleWithDefaults /\ UNCHANGED <<pubVars, ctlVars>>

InitOverlap == InitEC

NextOverlap ==
  /\ \/ \E p \in Handlers : EHEnter(p)
     \/ \E p \in Handlers : EHResume(p)
     \/ EHSetErrorThreshold
     \/ EHClearErrors
  /\ UNCHANGED <<pubVars, ctlVars>>

InitDirect == InitEC

NextDirect == CtsTransformContent \/ PubPrepareRequestBody

InitInterpret == InitEC

NextInterpret == EisInterpretEmail

SpecDirect == InitDirect /\ [][NextDirect]_vars

SpecInterpret == InitInterpret /\ [][NextInterpret]_vars

SpecDefaults == InitDefaults /\ [][NextDefaults]_vars

SpecOverlap == InitOverlap /\ [][NextOverlap]_vars

SpecEC == InitEC /\ [][NextEC]_vars

SpecChain == InitChain /\ [][NextChain]_vars

SpecPub == InitMany /\ [][NextMany]_vars

SpecRun == InitRun /\ [][NextRun]_vars

SpecConcurrent == InitConcurrent /\ [][NextConcurrent]_vars
SpecStatus == InitStatus /\ [][NextStatus]_vars

\* =========================================================================
\* SecurityService.checkRateLimit
\* =========================================================================
\* the checkRateLimit calls of a behaviour
MaxRateCalls == 5
\* the largest limit a behaviour passes to checkRateLimit
MaxLimit == 2
\* the windowMs the calls pass
WindowMs == 2

\* the values of getRateLimitKey
RateKeys == {"client1", "client2"}

\* this.rateLimits.get(key) of a key never set
NoRateRecord == [present |-> FALSE, count |-> 0, resetTime |-> 0]

NoRateLimits == [k \in RateKeys |-> NoRateRecord]

\* the window of the record ended once now is at its reset time
WindowOverAtReset(record, now) == now >= record.resetTime
\* the window of the record ended: now is past its reset time
WindowOver(record, now) == now > record.resetTime

\* checkRateLimit opens a new window for the record
OpensWindow(record, now) == ~record.present \/ WindowOver(record, now)

\* checkRateLimit for the request key at time now: what it returns and the
\* rateLimits map it leaves
CheckRateLimit(rateLimits, key, now, limit, windowMs) ==
  IF OpensWindow(rateLimits[key], now)
  THEN [admitted |-> TRUE, opened |-> TRUE,
        rateLimits |-> [rateLimits EXCEPT ![key] =
                          [present |-> TRUE, count |-> 1, resetTime |-> now + windowMs]]]
  ELSE IF rateLimits[key].count >= limit
  THEN [admitted |-> FALSE, opened |-> FALSE, rateLimits |-> rateLimits]
  ELSE [admitted |-> TRUE, opened |-> FALSE,
        rateLimits |-> [rateLimits EXCEPT ![key].count = @ + 1]]

\* the service before its first checkRateLimit call, the calls passing limit
FreshRate(limit) ==
  [fn |-> "checkRateLimit", rateLimits |-> NoRateLimits, now |-> 0, limit |-> limit,
   log |-> <<>>]

\* checkRateLimit returned r for key at time now
SecChecked(state, key, now, r) ==
  calc' = [state EXCEPT
             !.rateLimits = r.rateLimits,
             !.now = now,
             !.log = Append(@, [key |-> key, at |-> now, admitted |-> r.admitted,
                                opened |-> r.opened,
                                before |-> state.rateLimits[key].count,
                                count |-> r.rateLimits[key].count])]

SecCheckFrom(state) ==
  /\ Len(state.log) < MaxRateCalls
  /\ \E key \in RateKeys, now \in {state.now, state.now + 1, state.now + WindowMs + 1} :
       SecChecked(state, key, now,
                  CheckRateLimit(state.rateLimits, key, now, state.limit, WindowMs))

\* one checkRateLimit call; Date.now() does not go back
SecCheckRateLimit ==
  /\ IF calc.fn = "checkRateLimit"
     THEN SecCheckFrom(calc)
     ELSE \E limit \in 1..MaxLimit : SecCheckFrom(FreshRate(limit))
  /\ UNCHANGED <<ehVars, pubVars, ctlVars>>

InitRate == InitEC

NextRate == SecCheckRateLimit

SpecRate == InitRate /\ [][NextRate]_vars

\* =========================================================================
\* Properties
\* =========================================================================

SendIndexes(strategy) ==
  {i \in DOMAIN pubCall.events :
     pubCall.events[i].kind = "send" /\ pubCall.events[i].strategy = strategy}
AllSendIndexes == {i \in DOMAIN pubCall.events : pubCall.events[i].kind = "send"}

\* C5 as stated: when the original send failed and every attempt of the
\* backoff, alternate-auth and simplified-body strategies ended in a non-2xx
\* response or a transport failure, the publisher records a critical error.
C5_CriticalWhenAllFail ==
  (/\ Cardinality(AllSendIndexes) = MaxAttempts
   /\ \A i \in AllSendIndexes : pubCall.events[i].resp # "ok")
    => \E k \in DOMAIN pubCall.svcNew : pubCall.svcNew[k].severity = "critical"

\* C6: the backoff strategy sends at most 3 retries, each identical to the
\* original request and each sent only after a full wait of 1000, 3000 and
\* 5000 ms in that order, and every one of them precedes the first
\* alternate-auth request.
C6_BackoffBeforeAltAuth ==
  LET ev == pubCall.events
      B == SendIndexes("backoff")
      A == SendIndexes("altauth")
  IN /\ Cardinality(B) <= 3
     /\ \A i \in B :
          LET k == Cardinality({j \in B : j <= i})
              ms == CASE k = 1 -> 1000 [] k = 2 -> 3000 [] OTHER -> 5000
          IN /\ i > 2
             /\ ev[i - 1].kind = "wait" /\ ev[i - 1].ms = ms
             /\ ev[i - 2].kind = "send"
             /\ ev[i].at >= ev[i - 2].at + ms
             /\ ev[i].headers = ev[1].headers /\ ev[i].body = ev[1].body
     /\ \A a \in A : /\ \A b \in B : b < a
                     /\ \A w \in DOMAIN ev : ev[w].kind = "wait" => w < a
     /\ A # {} => Cardinality(B) = 3

\* C6 witness: a call whose three backoff retries all failed and whose
\* alternate-auth strategy then sent a request.
C6_Witness ==
  /\ Cardinality(SendIndexes("backoff")) = 3
  /\ SendIndexes("altauth") # {}

\* ---- the destinations of the last executePublishing call
EligibleOfCall ==
  {i \in DOMAIN conns :
     /\ conns[i].name \in {pubCall.passed[j] : j \in DOMAIN pubCall.passed}
     /\ IsTarget(pubCall.content, conns[i])}
FailingOfCall ==
  {i \in EligibleOfCall :
     \/ conns[i].name \notin DOMAIN schemas
     \/ FindEndpointForContentType(schemas[conns[i].name], pubCall.content.type) = 0}

\* C10: with at least one eligible destination the result's success is true
\* exactly when the result holds no error or fewer errors than eligible
\* destinations, one error per eligible destination that failed; so it is
\* false exactly when every eligible destination produced an error.
C10_SuccessUnlessAllFail ==
  (pubCalls > 0 /\ EligibleOfCall # {})
    => /\ Len(pubCall.errors) = Cardinality(FailingOfCall)
       /\ pubCall.success <=> (Len(pubCall.errors) = 0
                                 \/ Len(pubCall.errors) < Cardinality(EligibleOfCall))
       /\ ~pubCall.success <=> FailingOfCall = EligibleOfCall

\* C10 witness: three eligible destinations, one of which failed, and success.
C10_Witness ==
  /\ pubCalls > 0
  /\ Cardinality(EligibleOfCall) = 3
  /\ Cardinality(FailingOfCall) = 1
  /\ pubCall.success

\* what the classifier made of the submission of the processInput call
Classified == run.content

\* C2 as stated: in a processInput call whose classified intent is scheduled
\* or draft no HTTP publish request is sent to any destination; requests are
\* sent only when the classified intent is immediate.
C2_NoSendUnlessImmediate ==
  \A k \in DOMAIN run.results :
    run.results[k].sent > 0 => Classified.intent = "immediate"

\* C3 as stated: a destination supplied with is_active = false is neither
\* transformed for nor published to in that processInput call.
C3_InactiveExcluded ==
  \A i \in DOMAIN run.input.supplies :
    ~run.input.supplies[i].active =>
      /\ Destinations[i] \notin run.transformedFor
      /\ \A k \in DOMAIN run.results : run.results[k].name # Destinations[i]

\* C4 as stated: a publish request is built or sent for a destination only if
\* the destination is active and the classified target set names it or is the
\* sentinel all.
C4_OnlyTargetedReceive ==
  \A k \in DOMAIN run.results :
    (run.results[k].built > 0 \/ run.results[k].sent > 0) =>
      /\ \E i \in DOMAIN conns :
           conns[i].name = run.results[k].name /\ conns[i].is_active
      /\ ("all" \in Classified.target_frontends
            \/ run.results[k].name \in Classified.target_frontends)

TotalErrors ==
  (IF run.interpAlias THEN Len(emailErrors) ELSE Len(run.interpErrors))
    + Len(run.connErrors) + Len(run.transErrors) + Len(run.pubStageErrors)
Successful == {k \in DOMAIN run.results : run.results[k].success}
Returned == pc = "idle" /\ output.overall # "none" /\ ~output.caught

\* C9: determineOverallStatus yields success iff the four stages have no
\* error and every ProcessingResult succeeded, failure iff no ProcessingResult
\* succeeded and the stages have at least 3 errors, partial_success otherwise.
C9_StatusRule ==
  Returned =>
    /\ (output.overall = "success")
         <=> (TotalErrors = 0 /\ Successful = DOMAIN run.results)
    /\ (output.overall = "failure") <=> (Successful = {} /\ TotalErrors >= 3)
    /\ (output.overall = "partial_success")
         <=> ~(TotalErrors = 0 /\ Successful = DOMAIN run.results)
               /\ ~(Successful = {} /\ TotalErrors >= 3)

\* C9 witness: exactly 3 errors and failed ProcessingResults only, reported
\* as failure.
C9_Witness ==
  /\ Returned
  /\ TotalErrors = 3
  /\ run.results # <<>>
  /\ Successful = {}
  /\ output.overall = "failure"

\* the connected destinations of the processInput call that the classified
\* target set names
EligibleInRun ==
  {k \in DOMAIN run.active :
     \/ "all" \in Classified.target_frontends
     \/ conns[run.active[k]].name \in Classified.target_frontends}

\* C11 as stated: when no active destination matches the classified target
\* set, the publish stage of the processInput call reports exactly one error,
\* builds no request and adds no ProcessingResult to the results.
C11_NoEligibleOneError ==
  (Returned /\ EligibleInRun = {}) =>
    /\ Len(run.pubStageErrors) = 1
    /\ run.results = <<>>

\* the calls of the trace made for a stage before position j
CallsBefore(stage, j) == {i \in DOMAIN run.trace : i < j /\ run.trace[i].stage = stage}

\* C12: within a processInput call the classification has returned before the
\* first connection attempt, every supplied destination's connection attempt
\* has returned before the first transform, and every connected destination's
\* transform has returned before the first publish call.
C12_StagesInOrder ==
  \A j \in DOMAIN run.trace :
    /\ run.trace[j].stage = "interpret" => j = 1
    /\ run.trace[j].stage = "connect" =>
         /\ Cardinality(CallsBefore("interpret", j)) = 1
         /\ CallsBefore("transform", j) = {} /\ CallsBefore("publish", j) = {}
    /\ run.trace[j].stage = "transform" =>
         /\ Cardinality(CallsBefore("connect", j)) = Len(run.input.supplies)
         /\ CallsBefore("publish", j) = {}
    /\ run.trace[j].stage = "publish" =>
         /\ Cardinality(CallsBefore("connect", j)) = Len(run.input.supplies)
         /\ {run.trace[i].name : i \in CallsBefore("transform", j)}
              = {conns[run.active[k]].name : k \in DOMAIN run.active}

\* C12 witness: a call that connected, transformed for and published to two
\* destinations.
C12_Witness ==
  /\ pc = "idle"
  /\ Len(run.active) = 2
  /\ Cardinality({j \in DOMAIN run.trace : run.trace[j].stage = "publish"}) = 2
  /\ Cardinality({j \in DOMAIN run.trace : run.trace[j].stage = "transform"}) = 2

\* the actions of the output returned
OutputActions == {output.actions[i] : i \in DOMAIN output.actions}

\* C13 as stated: when processInput returns from its try block, every action
\* handleError returned during the call is among the output's actions, next to
\* the connect, transform and publish-status actions.
C13_RecoveryActionsInOutput ==
  Returned =>
    /\ \A i \in DOMAIN run.recovery : run.recovery[i] \in OutputActions
    /\ \A k \in DOMAIN run.active :
         MkAction("connect", conns[run.active[k]].name, "high", "connected") \in OutputActions

\* ---- the error log ----
\* the ids of a log's entries, in order
Ids(log) == [i \in DOMAIN log |-> log[i].id]

\* the last n elements of a sequence
LastN(s, n) == IF Len(s) <= n THEN s ELSE SubSeq(s, Len(s) - n + 1, Len(s))

\* the ids one handleError call appends: the error's, and that of the
\* "Recovery failed" error when the strategy threw
AppendedBy(h) == IF h.threw THEN <<h.error.id, h.error.id + 1>> ELSE <<h.error.id>>

\* C14: every error handed to handleError is appended to the log whatever the
\* outcome, the log never holds more than the limit, and after the call it
\* holds exactly the most recently appended errors in arrival order.
C14_LogKeepsLatestInOrder ==
  [][ehCalls' = ehCalls + 1 =>
       /\ Len(ehErrors') <= logLimit
       /\ Ids(ehErrors') = LastN(Ids(ehErrors) \o AppendedBy(lastHandled'), logLimit)]_vars

\* C14, the part that holds: the handled error is the last entry, or the one
\* before the "Recovery failed" error, and the limit is kept.
C14_AppendedAndCapped ==
  [][ehCalls' = ehCalls + 1 =>
       /\ Len(ehErrors') <= logLimit
       /\ Len(ehErrors') >= 1
       /\ LET n == Len(ehErrors')
          IN IF lastHandled'.threw
             THEN /\ ehErrors'[n].component = "ErrorHandlingService"
                  /\ (n > 1 => ehErrors'[n - 1].id = lastHandled'.error.id)
             ELSE ehErrors'[n].id = lastHandled'.error.id]_vars

\* the resolved flags of the log entries that are the handled error
FlagsInLog(log, id) == {log[i].resolved : i \in {j \in DOMAIN log : log[j].id = id}}

\* C15: when handleError runs below the threshold, the error's resolved flag
\* is true afterwards exactly when the registered strategy returned at least
\* one action; it stays false when the component has no strategy, when the
\* strategy returns no action and when the strategy throws.
C15_ResolvedIffRecovered ==
  [][(ehCalls' = ehCalls + 1 /\ ~lastHandled'.exceeded) =>
       /\ lastHandled'.resolvedAfter <=> (lastHandled'.recovered > 0)
       /\ FlagsInLog(ehErrors', lastHandled'.error.id) = {lastHandled'.recovered > 0}
       /\ (~lastHandled'.ran \/ lastHandled'.threw) => ~lastHandled'.resolvedAfter]_vars

\* C15: an error was handled below the threshold, its strategy returned an
\* action, and the error is resolved in the log.
C15_Witness ==
  /\ lastHandled.error # NoError
  /\ ~lastHandled.exceeded
  /\ lastHandled.recovered > 0
  /\ lastHandled.resolvedAfter
  /\ FlagsInLog(ehErrors, lastHandled.error.id) = {TRUE}

\* the other cases of C15: no strategy, a strategy without action, a strategy
\* that threw
C15_NoStrategyCase ==
  lastHandled.error # NoError /\ ~lastHandled.exceeded /\ ~lastHandled.ran
C15_NoActionCase ==
  /\ lastHandled.error # NoError /\ ~lastHandled.exceeded
  /\ lastHandled.ran /\ ~lastHandled.threw /\ lastHandled.recovered = 0
C15_ThrewCase ==
  lastHandled.error # NoError /\ ~lastHandled.exceeded /\ lastHandled.threw

\* the set of ids of a log's entries
IdSet(log) == {log[i].id : i \in DOMAIN log}

\* C16: an error that was appended to the log is still in it after any
\* handleError or resolveError call; only clearErrors takes errors out.
\* (A call that starts with a full log is left out: the cap drops the oldest.)
C16_OnlyClearRemoves ==
  [][(Len(ehErrors') >= Len(ehErrors) /\ Len(ehErrors) < logLimit)
       => IdSet(ehErrors) \subseteq IdSet(ehErrors')]_vars

\* C16, the part that holds: resolveError takes no error out of the log, and
\* neither does a handleError call that marks nothing resolved while the log
\* has room.
C16_ResolveKeepsErrors ==
  [][/\ (ehCalls' = ehCalls => (Len(ehErrors') >= Len(ehErrors)
                                  => IdSet(ehErrors) \subseteq IdSet(ehErrors')))
     /\ (ehCalls' = ehCalls + 1 /\ lastHandled'.recovered = 0
           /\ Len(ehErrors) + Len(AppendedBy(lastHandled')) <= logLimit)
          => IdSet(ehErrors) \subseteq IdSet(ehErrors')]_vars

\* a step in which manageConnection was called for the destination at run.idx
\* and returned false
ManageReturnedFalse ==
  /\ pc = "connect"
  /\ run'.trace # run.trace
  /\ run'.active = run.active

\* C17: manageConnection never throws, and whenever it returns false at least
\* one new FrontendConnectionService error was recorded during that call,
\* whether validation failed, the probe failed in transport or the probe was
\* answered with a non-2xx response.
C17_FalseRecordsError ==
  [][ManageReturnedFalse => Len(fcsErrors') > Len(fcsErrors)]_vars

\* C17, the part that holds: a failed validation and a probe that fails in
\* transport each record an error.
C17_FalseRecordsErrorUnlessAnswered ==
  [][(ManageReturnedFalse /\ run.input.supplies[run.idx].behaviour # "down")
       => Len(fcsErrors') > Len(fcsErrors)]_vars

\* C18: every cached schema has at least one endpoint, and a destination whose
\* schema source cannot be fetched or parsed, or that answers none of the
\* probed conventional paths, is cached with the generic schema.
C18_CachedSchemaHasEndpoint ==
  \A n \in DOMAIN schemas : Len(schemas[n].endpoints) >= 1

\* C18, the generic-schema half on its own
C18_GenericWhenNothingAnswers ==
  [][(pc = "connect" /\ Len(run'.active) > Len(run.active)
        /\ run.input.supplies[run.idx].behaviour \in {"generic", "bare"})
       => schemas'[conns[run.idx].name] = DefaultSchema]_vars

\* C18, the part that holds: a schema source that cannot be fetched or parsed
\* leaves the generic schema in the cache.
C18_GenericWhenSourceFails ==
  [][(pc = "connect" /\ Len(run'.active) > Len(run.active)
        /\ run.input.supplies[run.idx].behaviour = "generic")
       => schemas'[conns[run.idx].name] = DefaultSchema]_vars

\* a step in which the running call's transform or publish stage reads the
\* cached schema of destination n
ReadsSchema(n) ==
  /\ pc \in {"transform", "publish"}
  /\ parked' = parked
  /\ run'.trace = Append(run.trace, [stage |-> pc, name |-> n])

\* C19: the schema a processInput call cached for a destination is still the
\* cached one, neither replaced nor removed, when that call's transform and
\* publish stages read it, also when another processInput call on the same
\* controller runs between its awaits.
C19_CachedSchemaKept ==
  [][\A n \in DOMAIN run.cached :
       ReadsSchema(n) => (n \in DOMAIN schemas /\ schemas[n] = run.cached[n])]_vars

\* a transform or publish stage has read a schema this call cached
C19_ReadHappened ==
  \E i \in DOMAIN run.trace :
    run.trace[i].stage \in {"transform", "publish"} /\ run.trace[i].name \in DOMAIN run.cached

\* C20: handleError appends the error and compares the component's count with
\* its threshold in one step, so among overlapping calls for one component a
\* call returns pause and notify exactly when its own append brought the
\* component's count to the threshold or beyond.
C20_PauseIffOwnAppendReached ==
  \A p \in Handlers :
    inFlight[p].pc = "returned"
      => ((inFlight[p].actions = <<PauseAction, NotifyAction>>)
            <=> (inFlight[p].countAfter >= inFlight[p].threshold))

\* C20: a call that stayed below the threshold is still waiting while a later
\* call for the same component, whose append reached the threshold, has
\* returned pause and notify.
C20_Witness ==
  \E p \in Handlers, q \in Handlers :
    /\ inFlight[p].pc = "await"
    /\ ~inFlight[p].exceeded
    /\ inFlight[q].pc = "returned"
    /\ inFlight[q].error.component = inFlight[p].error.component
    /\ inFlight[q].error.id > inFlight[p].error.id
    /\ inFlight[q].countAfter >= inFlight[q].threshold
    /\ inFlight[q].actions = <<PauseAction, NotifyAction>>

\* ---- the connection objects after an executePublishing call
\* the sends of the last call to destination name that were answered with 2xx
AnsweredSends(call, name) ==
  {i \in DOMAIN call.events :
     /\ call.events[i].kind = "send"
     /\ call.events[i].conn = name
     /\ call.events[i].resp = "ok"}

\* C21: an executePublishing call refreshes a destination's last_used when,
\* and only when, a send to it was answered with 2xx, on the original attempt
\* or on a recovery attempt; without a 2xx answer the destination's is_active
\* and last_used stay as they were.
C21_RefreshedIffAnswered ==
  [][pubCalls' = pubCalls + 1 =>
       \A i \in DOMAIN conns :
         IF AnsweredSends(pubCall', conns[i].name) # {}
         THEN conns'[i].last_used = clock'
         ELSE conns'[i] = conns[i]]_vars

\* C21, the part that holds: a 2xx answer to the original attempt refreshes
\* last_used, and a destination never answered with 2xx is left unchanged.
C21_RefreshedOnOriginal ==
  [][pubCalls' = pubCalls + 1 =>
       \A i \in DOMAIN conns :
         /\ (\E k \in AnsweredSends(pubCall', conns[i].name) :
               pubCall'.events[k].strategy = "original")
              => conns'[i].last_used = clock'
         /\ AnsweredSends(pubCall', conns[i].name) = {} => conns'[i] = conns[i]]_vars

\* ---- a failed transform
\* the names of the run's active destinations
ActiveNames == {conns[run.active[i]].name : i \in DOMAIN run.active}

\* the active destinations whose transform was attempted and threw
FailedTransforms == (ActiveNames \cap run.transformedFor) \ DOMAIN run.transformed

\* the destinations the publisher was called for
PublishedNames == {run.results[k].name : k \in DOMAIN run.results}

HighErrors(errors) == {i \in DOMAIN errors : errors[i].severity = "high"}

\* C22: when transformContent fails for an active destination, a high-severity
\* error is recorded for it by the service and by the controller, the
\* destination is not published to, and every other active destination is
\* still transformed and handed to the publisher in the same run.
C22_TransformFailureIsolated ==
  (Returned /\ ~output.caught /\ FailedTransforms # {})
    => /\ Cardinality(HighErrors(ctsErrors)) >= Cardinality(FailedTransforms)
       /\ Cardinality(HighErrors(run.transErrors)) >= Cardinality(FailedTransforms)
       /\ PublishedNames \cap FailedTransforms = {}
       /\ ActiveNames \subseteq run.transformedFor
       /\ ActiveNames \ FailedTransforms = PublishedNames

\* C22: a run has ended in which the transform failed for one active
\* destination and another one was transformed and sent to.
C22_Witness ==
  /\ Returned /\ ~output.caught
  /\ FailedTransforms # {}
  /\ \E k \in DOMAIN run.results :
       run.results[k].name \notin FailedTransforms /\ run.results[k].sent > 0

\* ---- custom fields
AllCustomFields ==
  {"status", "featured", "technical", "audience", "comments_enabled", "shareable"}

\* the custom fields a destination is to get, by its name
CustomFieldsByName(name) ==
  CASE name = "main_site" -> {"status", "featured"}
    [] name = "developer_portal" -> {"technical", "audience"}
    [] name = "blog" -> {"comments_enabled", "shareable"}
    [] OTHER -> {}

\* C23: the custom fields in a destination's transformed content are those of
\* the destination's name, however its schema was discovered.
C23_CustomFieldsByDestination ==
  \A n \in DOMAIN run.transformed :
    run.transformed[n] \cap AllCustomFields = CustomFieldsByName(n)

\* C23, the part that holds: a destination whose schema was probed or is the
\* generic one gets the custom fields of its name.
C23_CustomFieldsWhenNamedAfterConnection ==
  \A n \in DOMAIN run.transformed :
    (n \in DOMAIN schemas /\ "name" \notin DOMAIN schemas[n])
      => run.transformed[n] \cap AllCustomFields = CustomFieldsByName(n)

\* ---- C24
\* the content type transformContent resolved in the call calc records
ResolvedType == calc.schema.content_types[calc.idx]

TransformReturned == calc.fn = "transformContent" /\ ~calc.result.threw

\* C24: every ContentMapping that transformContent returns has a frontend_field
\* that is a field of the resolved content type of the schema or one of the
\* custom fields injected for the schema's name.
C24_MappingsNameSchemaFields ==
  TransformReturned =>
    calc.result.mapped \subseteq
      ResolvedType.fields \cup CustomFields(SchemaName(calc.schema, calc.name))

\* C24, for content without media files: the mappings name fields of the
\* resolved content type only.
C24_FieldMappingsNameSchemaFields ==
  (TransformReturned /\ calc.content.media = 0) =>
    calc.result.mapped \subseteq ResolvedType.fields

\* ---- C25
\* the required fields of the resolved content type whose mapped source field
\* has a value in the content handed to transformContent
RequiredWithValue ==
  {f \in ResolvedType.required :
     MapSourceField(f, calc.content.type) \in calc.content.fields}

\* C25: every required field of the schema whose mapped source field has a
\* value is present in what transformContent returns, and is still in the
\* request body after the publisher has filtered it by the endpoint's declared
\* fields.
C25_RequiredFieldsSurviveRoundTrip ==
  calc.fn = "prepareRequestBody" =>
    \A f \in RequiredWithValue : f \in calc.result.fields /\ f \in calc.body

\* C25, first half: transformContent returns every such required field.
C25_RequiredFieldsTransformed ==
  (calc.fn \in {"transformContent", "prepareRequestBody"} /\ ~calc.result.threw) =>
    RequiredWithValue \subseteq calc.result.fields

\* C25, for the generic schema and for endpoints without a declared request
\* body: the round trip keeps every such required field.
C25_RoundTripWhenEndpointAgrees ==
  (calc.fn = "prepareRequestBody"
     /\ (calc.schema = DefaultSchema \/ ~calc.schema.endpoints[calc.endpoint].hasBody)) =>
    RequiredWithValue \subseteq calc.body

\* ---- C26
InterpretedScenario ==
  calc.fn = "interpretEmail" /\ ~calc.threw /\ calc.email = ScenarioEmail

\* C26: the message with subject "New Blog Post: X" and body "content #blog
\* priority: high publish now" is classified as type article, intent immediate,
\* and target destinations exactly ['all'].
C26_ScenarioTargetsAll ==
  InterpretedScenario =>
    /\ calc.result.type = "article"
    /\ calc.result.intent = "immediate"
    /\ calc.result.target_frontends = {"all"}

\* C26, as the classifier answers: type article, intent immediate, and the one
\* target blog, named by the hashtag in the body.
C26_ScenarioTargetsBlog ==
  InterpretedScenario =>
    /\ calc.result.type = "article"
    /\ calc.result.intent = "immediate"
    /\ calc.result.target_frontends = {"blog"}

\* ---- C27
ExtractedTags == calc.fn = "interpretEmail" /\ ~calc.threw

\* the first line of the body that a tag of the list comes from
FirstAppearance(tag) ==
  FirstIndex({i \in DOMAIN calc.email.lines :
                \E k \in {"hash", "tags", "category"}, j \in DOMAIN calc.tags :
                  /\ calc.tags[j] = tag
                  /\ \E m \in DOMAIN MatchesOfLine(calc.email.lines[i], k) :
                       MatchesOfLine(calc.email.lines[i], k)[m] = tag})

\* C27: a body with "#tag1 #tag2" yields tag1 and tag2; the list has no
\* duplicate; the tags are listed in the order of their first appearance in the
\* body, across hashtags, tags: lines and category: lines.
C27_TagsInOrderOfAppearance ==
  ExtractedTags =>
    /\ (\E i \in DOMAIN calc.email.lines :
          calc.email.lines[i] = HashLine(<<"Tag1", "tag2">>))
         => (\E j \in DOMAIN calc.tags : calc.tags[j] = "tag1")
              /\ (\E j \in DOMAIN calc.tags : calc.tags[j] = "tag2")
    /\ \A i, j \in DOMAIN calc.tags : i # j => calc.tags[i] # calc.tags[j]
    /\ \A i, j \in DOMAIN calc.tags :
         i < j => FirstAppearance(calc.tags[i]) <= FirstAppearance(calc.tags[j])

\* C27, without the order across kinds: the hashtags are found, the list has
\* no duplicate, and the hashtags come before every tags: and category: entry.
C27_HashtagsFoundNoDuplicate ==
  ExtractedTags =>
    /\ \A i \in DOMAIN calc.email.lines :
         calc.email.lines[i].kind = "hash" =>
           \A w \in DOMAIN calc.email.lines[i].words :
             \E j \in DOMAIN calc.tags :
               calc.tags[j] = ToLowerCase(calc.email.lines[i].words[w])
    /\ \A i, j \in DOMAIN calc.tags : i # j => calc.tags[i] # calc.tags[j]

\* ---- C28
\* the thresholds the claim lists, and 10 for a component without one
ListedThreshold(c) ==
  CASE c = "EmailInterpretationService" -> 10
    [] c = "FrontendConnectionService" -> 5
    [] c = "ContentTransformationService" -> 8
    [] c = "PublishingExecutionService" -> 7
    [] c = "ErrorHandlingService" -> 3
    [] OTHER -> 10

\* k: the number of errors logged for the component, the one being handled included
KthLogged == lastHandled.countBefore + 1

C28_CoordinatorAtThree ==
  (lastHandled.error.component = "ErrorHandlingService" /\ KthLogged = 3)
    => lastHandled.exceeded

\* ---- C29
\* the priority the claim gives the generic action for a severity
ListedPriority(severity) ==
  CASE severity \in {"critical", "high"} -> "high"
    [] severity = "medium" -> "medium"
    [] severity = "low" -> "low"

\* C29: handleError returns a non-empty action list for every error in every
\* state: exactly pause and notify at or above the threshold; otherwise the
\* recovery strategy's actions when it yields any; otherwise exactly one
\* generic error action whose priority is high for critical or high severity,
\* medium for medium and low for low.
C29_ActionsNeverEmpty ==
  lastHandled.error.id # 0 =>
    /\ Len(lastHandled.actions) > 0
    /\ lastHandled.exceeded => lastHandled.actions = <<PauseAction, NotifyAction>>
    /\ (~lastHandled.exceeded /\ lastHandled.recovered > 0)
         => /\ lastHandled.actions = StrategyActions(lastHandled.error)
            /\ Len(lastHandled.actions) = lastHandled.recovered
    /\ (~lastHandled.exceeded /\ lastHandled.recovered = 0)
         => lastHandled.actions =
              <<[type |-> "error", target |-> "system",
                 priority |-> ListedPriority(lastHandled.error.severity),
                 action |-> "none"]>>

\* C29 witness: an error of low severity whose component has no strategy was
\* handled below the threshold and answered with the one generic action of
\* priority low.
C29_Witness ==
  /\ lastHandled.error.id # 0
  /\ lastHandled.error.severity = "low"
  /\ ~lastHandled.exceeded
  /\ ~lastHandled.ran
  /\ Len(lastHandled.actions) = 1
  /\ lastHandled.actions[1].priority = "low"

\* C29, the strategy that throws: the call still returns the generic action.
C29_GenericAfterThrow ==
  (lastHandled.error.id # 0 /\ lastHandled.threw)
    => lastHandled.actions = <<GenericErrorAction(lastHandled.error)>>

\* ---- C30
\* the place of a strategy in the recovery chain (0: the original send)
StrategyRank(strategy) ==
  CASE strategy = "original" -> 0
    [] strategy = "backoff" -> 1
    [] strategy = "altauth" -> 2
    [] strategy = "simplified" -> 3

\* the requests the last call sent to a destination, by strategy
SendsTo(conn, strategy) ==
  {i \in SendIndexes(strategy) : pubCall.events[i].conn = conn}

AllFailed(conn, strategy, count) ==
  /\ Cardinality(SendsTo(conn, strategy)) = count
  /\ \A i \in SendsTo(conn, strategy) : pubCall.events[i].resp # "ok"

\* C30: after a failed send the strategies run in the order backoff retry,
\* alternate auth, simplified body; a later strategy sends a request only
\* after every attempt of the earlier ones has failed; after the first
\* attempt answered with 2xx no further request is sent for the request.
C30_RecoveryChainInOrder ==
  LET ev == pubCall.events
  IN \A j \in AllSendIndexes :
       /\ \A i \in AllSendIndexes :
            (i < j /\ ev[i].conn = ev[j].conn)
              => /\ StrategyRank(ev[i].strategy) <= StrategyRank(ev[j].strategy)
                 /\ ev[i].resp # "ok"
       /\ ev[j].strategy # "original" => AllFailed(ev[j].conn, "original", 1)
       /\ StrategyRank(ev[j].strategy) >= 2
            => AllFailed(ev[j].conn, "backoff", Len(BackoffDelays))
       /\ StrategyRank(ev[j].strategy) >= 3
            => AllFailed(ev[j].conn, "altauth", Len(AlternativeAuths))

\* C30 witness: the original send and the three backoff retries failed, the
\* second alternate-auth attempt was answered with 2xx, and nothing was sent
\* after it.
C30_Witness ==
  /\ pubCall.events # <<>>
  /\ pubCall.events[Len(pubCall.events)].strategy = "altauth"
  /\ pubCall.events[Len(pubCall.events)].resp = "ok"
  /\ Cardinality(SendIndexes("altauth")) = 2
  /\ Cardinality(SendIndexes("backoff")) = 3
  /\ SendIndexes("simplified") = {}

\* ---- C31
\* the credential headers a request carries
CredentialHeaders(headers) ==
  (IF headers.authorization # "absent" THEN {"Authorization"} ELSE {})
    \cup (IF headers.xApiKey THEN {"X-API-Key"} ELSE {})

\* the scheme of a request that carries one credential header
SchemeOf(headers) ==
  IF headers.xApiKey THEN "X-API-Key" ELSE headers.authorization

\* C31: every alternate-auth attempt sends the body of the original request
\* unchanged with exactly one credential header, and the three attempts cover
\* the schemes Bearer Authorization, X-API-Key and JWT-prefixed Authorization.
C31_AltAuthCoversThreeSchemes ==
  LET ev == pubCall.events
      A == SendIndexes("altauth")
  IN /\ \A a \in A : /\ ev[a].body = ev[1].body
                     /\ Cardinality(CredentialHeaders(ev[a].headers)) = 1
     /\ Cardinality(A) = Len(AlternativeAuths)
          => {SchemeOf(ev[a].headers) : a \in A} = {"Bearer", "X-API-Key", "JWT"}

\* C31, without the JWT scheme: the body is unchanged, each attempt carries
\* one credential header, and the three attempts send X-API-Key once and
\* Bearer Authorization twice.
C31_AltAuthBodyAndOneHeader ==
  LET ev == pubCall.events
      A == SendIndexes("altauth")
  IN /\ \A a \in A : /\ ev[a].body = ev[1].body
                     /\ Cardinality(CredentialHeaders(ev[a].headers)) = 1
     /\ Cardinality(A) = Len(AlternativeAuths)
          => /\ {SchemeOf(ev[a].headers) : a \in A} = {"Bearer", "X-API-Key"}
             /\ Cardinality({a \in A : SchemeOf(ev[a].headers) = "Bearer"}) = 2

\* ---- C32
\* the ProcessingResults of the run whose requests were sent and never answered
\* with a 2xx response
UnansweredResults ==
  {k \in DOMAIN run.results : run.results[k].sent > 0 /\ ~run.results[k].answered}

\* C32: when the send to a destination fails and no recovery attempt obtains a
\* 2xx response, the destination's ProcessingResult has success = false or the
\* run has a publishing error, and processInput does not report the overall
\* status success.
C32_NoSuccessWithoutAnswer ==
  (pc = "idle" /\ output.overall # "none" /\ UnansweredResults # {})
    => /\ \A k \in UnansweredResults :
            ~run.results[k].success \/ run.pubStageErrors # <<>>
       /\ output.overall # "success"

\* C32, as the code behaves: a ProcessingResult whose request was built is
\* reported successful whatever the destination answered.
C32_BuiltMeansSuccess ==
  \A k \in DOMAIN run.results : run.results[k].built > 0 => run.results[k].success

\* ---- C33: the errors of a FrameworkOutput
\* processInput returned the FrameworkOutput of its try block
RunCompleted == pc = "idle" /\ output.overall # "none" /\ ~output.caught

Occurrences(errors, id) == Cardinality({k \in DOMAIN errors : errors[k].id = id})

\* C33: the errors of the FrameworkOutput of a run hold each SystemError at
\* most once; an error a stage service recorded for an earlier destination of
\* the run does not appear again.
C33_EachErrorAtMostOnce ==
  RunCompleted =>
    \A k \in DOMAIN output.errors : Occurrences(output.errors, output.errors[k].id) = 1

\* C33, the part that holds: the errors the controller itself creates in its
\* catch blocks are in the FrameworkOutput at most once.
C33_ControllerErrorsAtMostOnce ==
  RunCompleted =>
    \A k \in DOMAIN output.errors :
      output.errors[k].component = "FrameworkController"
        => Occurrences(output.errors, output.errors[k].id) = 1

\* ---- C34: what the controller hands to handleError
DistinctLogged(log, c) == {log[k].id : k \in {j \in DOMAIN log : log[j].component = c}}

\* C34: every SystemError is handed to handleError at most once, so the count
\* the error handling service keeps for a component is the number of distinct
\* errors of that component in its log.
C34_CountIsDistinctErrors ==
  \A c \in DOMAIN reached :
    GetErrorCount(ehErrors, c) = Cardinality(DistinctLogged(ehErrors, c))

\* C34, the part that holds: the errors the controller creates in its catch
\* blocks are handed to handleError once.
C34_ControllerErrorsHandledOnce ==
  GetErrorCount(ehErrors, "FrameworkController")
    = Cardinality(DistinctLogged(ehErrors, "FrameworkController"))

\* ---- C35: the content type the publisher selects the endpoint with
\* the publisher returned for the destination of the run's latest result
PublishedInRun ==
  /\ pc \in {"publish", "finish"}
  /\ run.results # <<>>
  /\ pubCall.passed = <<run.results[Len(run.results)].name>>

\* C35: for every destination of a run the publisher selects the endpoint
\* with the content type the classifier chose for the submission.
C35_EndpointForClassifiedType ==
  PublishedInRun =>
    \A k \in DOMAIN pubCall.passed :
      FindEndpointForContentType(schemas[pubCall.passed[k]], pubCall.content.type)
        = FindEndpointForContentType(schemas[pubCall.passed[k]], run.content.type)

\* C35, what holds instead: the transformed content of a run has no type
\* field, so the publisher selects every endpoint with the type 'content'.
C35_EndpointForContentDefault ==
  PublishedInRun => pubCall.content.type = "content"

\* ---- C36: the publish-status actions of generateActions
IsPublishStatus(a) == a.action = "publish_status"
PublishStatusActions == SelectSeq(output.actions, IsPublishStatus)

\* C36: every publish-status action of the FrameworkOutput has as target the
\* destination whose ProcessingResult it reports.
C36_PublishActionNamesItsDestination ==
  RunCompleted =>
    \A k \in DOMAIN PublishStatusActions :
      PublishStatusActions[k].target = run.results[k].name

\* C36, the part that holds: when every active destination has a
\* ProcessingResult, each publish-status action names its destination.
C36_NamesDestinationWhenAllPublished ==
  (RunCompleted /\ Len(run.results) = Len(run.active)) =>
    \A k \in DOMAIN PublishStatusActions :
      PublishStatusActions[k].target = run.results[k].name

\* ---- C37: system_state.active_connections after a run
Range(seq) == {seq[k] : k \in DOMAIN seq}

\* C37: after processInput returned the FrameworkOutput of its try block,
\* system_state.active_connections holds exactly the names of the
\* destinations whose connection was established in that run.
C37_ActiveConnectionsAreEstablished ==
  RunCompleted => Range(run.system_state.active_connections) = ActiveNames

\* C37, the part that holds: every destination whose connection was
\* established in the run is in system_state.active_connections.
C37_EstablishedAreListed ==
  RunCompleted => ActiveNames \subseteq Range(run.system_state.active_connections)

\* ---- C38: system_state.success_rate after a run
\* C38: after processInput returned, for a system_state that arrived with
\* total_processed >= 0, success_rate is between 0 and 100.
C38_SuccessRateInRange ==
  RunCompleted =>
    run.system_state.success_rate >= 0 /\ run.system_state.success_rate <= 100

\* C38, the part that holds: success_rate is at most 100, and at least 0
\* unless the publishing stage reported more errors than total_processed.
C38_SuccessRateAtMostHundred ==
  RunCompleted =>
    /\ run.system_state.success_rate <= 100
    /\ Len(run.pubStageErrors) <= run.system_state.total_processed
         => run.system_state.success_rate >= 0

\* ---- C39: the recovery of the publisher ends
\* the destinations the call sent a request to
Contacted == {pubCall.events[i].conn : i \in AllSendIndexes}

\* C39: for one PublishRequest the publisher issues the original request and
\* at most 7 further ones (at most 3 backoff retries, 3 alternate-auth
\* attempts and 1 simplified body), and every request of a call that
\* executes its requests has its original sent, whatever the earlier requests
\* of the call were answered.
C39_RecoveryBounded ==
  /\ \A conn \in Contacted :
       /\ Cardinality(SendsTo(conn, "original")) = 1
       /\ Cardinality(SendsTo(conn, "backoff")) <= 3
       /\ Cardinality(SendsTo(conn, "altauth")) <= 3
       /\ Cardinality(SendsTo(conn, "simplified")) <= 1
       /\ Cardinality({i \in AllSendIndexes : pubCall.events[i].conn = conn}) <= 1 + 7
  /\ pubCall.content.intent = "immediate"
       => \A k \in DOMAIN pubCall.requests : pubCall.requests[k].conn \in Contacted

\* C39 witness: a call with two requests; all 8 requests for the first were
\* answered without 2xx, and the request for the second was sent after them.
C39_Witness ==
  /\ Len(pubCall.requests) = 2
  /\ Cardinality(Contacted) = 2
  /\ \E conn \in Contacted :
       /\ Cardinality({i \in AllSendIndexes : pubCall.events[i].conn = conn}) = 8
       /\ \A i \in AllSendIndexes :
            pubCall.events[i].conn = conn => pubCall.events[i].resp # "ok"
       /\ \E j \in AllSendIndexes :
            /\ pubCall.events[j].conn # conn
            /\ \A i \in AllSendIndexes : pubCall.events[i].conn = conn => i < j

\* ---- C40: checkRateLimit
RateLog == IF calc.fn = "checkRateLimit" THEN calc.log ELSE <<>>

\* the calls for the key of call i that were admitted from call i on and
\* not later than the reset time of the window call i opened
AdmittedInWindow(i) ==
  {j \in DOMAIN RateLog :
     /\ j >= i
     /\ RateLog[j].key = RateLog[i].key
     /\ RateLog[j].admitted
     /\ RateLog[j].at <= RateLog[i].at + WindowMs}

\* C40: for one client key at most `limit` requests are admitted between the
\* opening of a window and its reset time; the request that opens a window is
\* admitted and counted as 1; a rejected request leaves the count unchanged.
C40_AtMostLimitPerWindow ==
  \A i \in DOMAIN RateLog :
    /\ RateLog[i].opened
         => /\ Cardinality(AdmittedInWindow(i)) <= calc.limit
            /\ RateLog[i].admitted
            /\ RateLog[i].count = 1
    /\ ~RateLog[i].admitted => RateLog[i].count = RateLog[i].before

\* C40 witness: a window of one key in which `limit` requests were admitted,
\* one more was rejected at the reset time itself, and a later request opened
\* the next window.
C40_Witness ==
  \E i, j, k \in DOMAIN RateLog :
    /\ i < j /\ j < k
    /\ RateLog[i].opened
    /\ RateLog[j].key = RateLog[i].key /\ RateLog[k].key = RateLog[i].key
    /\ Cardinality(AdmittedInWindow(i)) = calc.limit
    /\ ~RateLog[j].admitted /\ RateLog[j].at = RateLog[i].at + WindowMs
    /\ RateLog[k].opened

====
